---------------------------- MODULE Spec2Model ----------------------------
(***************************************************************************)
(* NecroStack: the Spine dispatcher (necrostack/core/spine.py) running     *)
(* against a FIFO backend (necrostack/backends/inmemory.py) whose          *)
(* operations may raise, and the in-process failed-event store.            *)
(* The backends and the failed-event store are also driven on their own,   *)
(* by arbitrary callers: the in-memory backend (BackendSpec), the          *)
(* failed-event store (StoreSpec) and the Redis Streams backend with       *)
(* several consumers of one group (StreamsSpec,                            *)
(* necrostack/backends/redis_backend.py).                                  *)
(*                                                                         *)
(* Spine.run is a coroutine: it is modelled as one process whose pc is the *)
(* await it is suspended at.  Every action is the code executed between    *)
(* two awaits.  stop() may be called by any other coroutine (a handler, a  *)
(* backend method, another task) while run is suspended.                   *)
(***************************************************************************)
EXTENDS Integers, Sequences, FiniteSets, TLC

(***************************************************************************)
(* Bounds of the model.                                                    *)
(***************************************************************************)
NumOrgans == 2        \* organs registered with the spine
MaxEvents == 3        \* events ever constructed (start event + emitted)
MaxEmit == 2          \* longest list a handler returns
MaxFaults == 2        \* backend operations that raise during one run
MaxStepsLimit == 2    \* largest configured max_steps
MaxThreshold == 2     \* largest configured max_consecutive_backend_failures
MaxRetryAttempts == 1 \* largest configured retry_attempts
MaxEarlyStops == 1    \* stop() calls made before run() is called
MaxDlqSize == 2       \* max_size of the failed-event store
MaxQueueSize == 2     \* largest max_size of a bounded in-memory backend
NumBackendEvents == 2 \* distinct events handed to a backend driven on its own
MaxCalls == 5         \* calls made on a backend driven on its own
MaxStoreSize == 3     \* largest max_size of a failed-event store driven on its own
MaxStoreCalls == 5    \* store calls made on such a store
MaxStreamLen == 2     \* messages ever added to the stream
MaxConnections == 3   \* connections one backend opens
MaxPulled == 1        \* events pulled by the backend whose connection is modelled
MaxRetries == 2       \* max_retries of the streams backend
ClaimMinIdle == 1     \* claim_min_idle_ms of the streams backend, in clock ticks

EventTypes == {"A", "B"}
StartTypes == {"A"}   \* the organ lists cover both types, so "B" adds no case
None == "None"

Consumers == {"c1", "c2"}  \* consumer_name of the backends sharing the group

EnqueueFailureMode == {"fail", "retry", "store"}
HandlerFailureMode == {"log", "store", "nack"}

VARIABLES
    \* Spine configuration (constructor arguments)
    organs,                \* organs[i] = listens_to of the i-th organ
    max_steps,
    enqueue_failure_mode,
    handler_failure_mode,
    retry_attempts,
    max_consecutive_backend_failures,
    \* Spine state
    running,               \* self._running
    stats,                 \* self._stats (SpineStats)
    consecutive_pull_failures,
    last_backend_error,
    failed_event_store,    \* [events, max_size, dropped_count]
    \* backend
    queue,                 \* the backend's FIFO queue
    \* the run coroutine
    pc,                    \* the await run is suspended at
    raised,                \* the exception run terminated with, or None
    event,                 \* the event being dispatched
    organ,                 \* index of the organ being invoked
    handler_failed,
    handler_error,
    events_to_enqueue,     \* events of the handler's return not yet enqueued
    attempt,               \* retry loop counter of _handle_enqueue_failure
    last_error,            \* last_error of _handle_enqueue_failure
    \* environment bookkeeping
    next_id,               \* id of the next event constructed
    faults,                \* backend operations that have raised
    \* observations (what a recording backend / recording organs would hold)
    invoked,               \* organs invoked on the current event, in order
    returned,              \* ids returned by the handler invoked last
    enqueue_calls,         \* ids passed to backend.enqueue since that return
    dispatch_returned,     \* ids returned by all handlers for the current event
    dispatch_enqueued,     \* ids passed to backend.enqueue for the current event
    acked_events,          \* ids passed to backend.ack, in order
    store_calls,           \* ids passed to failed_event_store.store, in order
    pulled,                \* ids returned by backend.pull, in order
    failed_ids,            \* pulled ids on which some organ raised
    resolved,              \* pulled ids whose acknowledgment was resolved
    pull_failures,         \* failed pulls of the run
    pull_failure_run,      \* failed pulls since the last successful pull
    last_pull_error,       \* error of the last failed pull, None after a success
    \* the in-memory backend driven on its own
    maxsize,               \* maxsize of the asyncio.Queue (_max_size), 0: unbounded
    history,               \* the calls made, in order: [op, arg, result]
    \* the failed-event store driven on its own
    store_args,            \* the pairs passed to store, in order
    store_raised,          \* the exception the last store call raised, or None
    \* Redis: one stream, one consumer group
    stream,                \* stream[m]: id of the event in the message with id m
    last_delivered,        \* last-delivered id of the group
    pending,               \* pending entries list: message id -> [consumer,
                           \* idle, times_delivered]
    dlq_stream,            \* the dead-letter stream
    \* the streams backend of each consumer
    event_message_map,     \* self._event_message_map
    metrics,               \* self._metrics
    cpc,                   \* where the pull of the consumer stands
    scan,                  \* entries returned by XPENDING not yet examined
    \* the callers of the streams backends
    holding,               \* the delivery each consumer is processing, or None
    deliveries,            \* what the pulls have returned
    ack_returns,           \* deliveries whose ack has returned normally
    xacks,                 \* the XACKs executed: [msg, by]
    \* the streams backend of a Spine
    redis_client,          \* self._redis and self._connected: "unconnected",
                           \* "open", or "cleared" (None after a connection)
    read_failures,         \* XREADGROUP calls of its pulls that have raised
    \* _invoke_handler spelled out
    handler_outcome,       \* what the last call of organ.handle did
    \* the caller of the Spine
    early_stops,           \* stop() calls made before run() was called
    \* one streams backend used by concurrent tasks: its connection
    redis,                 \* self._redis: a connection, or 0 for None
    connected,             \* self._connected
    conn_lock,             \* the task holding self._conn_lock, or "free"
    map_lock,              \* the task holding self._map_lock, or "free"
    connections,           \* the connections opened: [state, alive, verified]
    reconnections,         \* self._metrics.reconnections
    map_keys,              \* the event ids in self._event_message_map
    conn_pulled,           \* events its pulls have returned
    task,                  \* the operation of each task and where it stands
    writes                 \* the assignments made to self._redis and to the
                           \* map: [target, locked]

config == <<organs, max_steps, enqueue_failure_mode, handler_failure_mode,
            retry_attempts, max_consecutive_backend_failures>>
spine == <<running, stats, consecutive_pull_failures, last_backend_error,
           failed_event_store>>
coroutine == <<pc, raised, event, organ, handler_failed, handler_error,
               events_to_enqueue, attempt, last_error>>
observed == <<invoked, returned, enqueue_calls, dispatch_returned,
              dispatch_enqueued, acked_events, store_calls, pulled, failed_ids,
              resolved, pull_failures, pull_failure_run, last_pull_error>>
\* a Spine that takes no step: all of the above but the two collaborators
spine_idle == <<config, running, stats, consecutive_pull_failures,
                last_backend_error, coroutine, next_id, faults, observed,
                handler_outcome, early_stops>>
backend_obs == <<maxsize, history>>
store_obs == <<store_args, store_raised>>
conn == <<redis, connected, conn_lock, map_lock, connections, reconnections,
          map_keys, conn_pulled, task, writes>>
streams == <<stream, last_delivered, pending, dlq_stream, event_message_map, metrics, cpc, scan, holding, deliveries,
             ack_returns, xacks, redis_client, read_failures, conn>>
standalone == <<backend_obs, store_obs, streams, handler_outcome, early_stops>>
vars == <<config, spine, queue, coroutine, next_id, faults, observed, standalone>>

(***************************************************************************)
(* Values                                                                  *)
(***************************************************************************)
Event(i, t) == [id |-> i, event_type |-> t]
NoEvent == [id |-> 0, event_type |-> None]

SpineStats == [events_processed |-> 0, events_emitted |-> 0,
               enqueue_failures |-> [t \in EventTypes |-> 0],
               handler_errors |-> [o \in 1..NumOrgans |-> 0],
               backend_errors |-> 0, ack_errors |-> 0]

InMemoryFailedEventStore(max_size) ==
    [events |-> <<>>, max_size |-> max_size, dropped_count |-> 0]

\* faulty variant: the pair is not kept
storeNothing(s, ev, error) == s

\* InMemoryFailedEventStore.store: drop the oldest pair when full, then append
store(s, ev, error) ==
    LET kept == IF Len(s.events) >= s.max_size THEN Tail(s.events) ELSE s.events
        drops == IF Len(s.events) >= s.max_size THEN 1 ELSE 0
    IN [s EXCEPT !.events = Append(kept, <<ev, error>>),
                 !.dropped_count = @ + drops]

\* the exception raised by the n-th failing backend operation of the run
Error(n) == "error" \o ToString(n)

\* the exception raised by the handler of organ o
HandlerError(o) == "handler" \o ToString(o)

NoError == [type |-> None, failure_count |-> 0, error |-> None]
Raise(type, count, error) == [type |-> type, failure_count |-> count, error |-> error]

(***************************************************************************)
(* Decisions of Spine.run                                                  *)
(***************************************************************************)
\* faulty variant: every organ is invoked, whatever it listens to
ListensAlways(o, ev) == TRUE

\* "if event.event_type not in organ.listens_to: continue"
Listens(o, ev) == ev.event_type \in organs[o]

\* faulty variant: the loop over the organs ends after the first organ that listens
NextOrganBreaks(i, ev) ==
    LET later == {j \in (i + 1)..Len(organs) : Listens(j, ev)}
    IN IF later = {} \/ i > 0 THEN Len(organs) + 1
       ELSE CHOOSE j \in later : \A k \in later : j <= k

\* faulty variant: the loop over the organs gives up once stop() has been called
NextOrganUnlessStopped(i, ev) ==
    LET later == {j \in (i + 1)..Len(organs) : Listens(j, ev)}
    IN IF later = {} \/ (i > 0 /\ ~running) THEN Len(organs) + 1
       ELSE CHOOSE j \in later : \A k \in later : j <= k

\* "for organ in self.organs": the next organ after position i that listens to
\* ev, or Len(organs) + 1 when the loop over the organs is finished
NextOrgan(i, ev) ==
    LET later == {j \in (i + 1)..Len(organs) : Listens(j, ev)}
    IN IF later = {} THEN Len(organs) + 1
       ELSE CHOOSE j \in later : \A k \in later : j <= k

\* the organs that listen to ev, in registration order
RECURSIVE MatchingFrom(_, _)
MatchingFrom(i, ev) ==
    IF i > Len(organs) THEN <<>>
    ELSE IF ev.event_type \in organs[i] THEN <<i>> \o MatchingFrom(i + 1, ev)
    ELSE MatchingFrom(i + 1, ev)
Matching(ev) == MatchingFrom(1, ev)

\* faulty variant: off by one, a further event is processed
MaxStepsExceededLate(processed, limit) == processed > limit

\* "if self._stats.events_processed >= self.max_steps"
MaxStepsExceeded(processed, limit) == processed >= limit

\* faulty variant: off by one, a further pull is issued
CircuitOpenLate(failures, threshold) == failures > threshold

\* "if self._consecutive_pull_failures >= self.max_consecutive_backend_failures"
CircuitOpen(failures, threshold) == failures >= threshold

\* faulty variant: the counter is not reset
AfterSuccessfulPullKeeps(failures) == failures

\* "self._consecutive_pull_failures = 0  # Reset on success"
AfterSuccessfulPull(failures) == 0

\* "self._consecutive_pull_failures += 1"
AfterFailedPull(failures) == failures + 1

\* faulty variant: a failed event is written to the store in every mode
StoresFailedEventAlways(failed, mode) == failed

\* faulty variant: the failed event is not written to the store
StoresFailedEventNever(failed, mode) == FALSE

\* "if handler_failed: if self.handler_failure_mode == HandlerFailureMode.STORE"
StoresFailedEvent(failed, mode) == failed /\ mode = "store"

\* faulty variant: the NACK branch acknowledges like the others
AcksEventAlways(failed, mode) == TRUE

\* the branches of the handler_failure_mode resolution that call backend.ack:
\* all but "elif self.handler_failure_mode == HandlerFailureMode.NACK"
AcksEvent(failed, mode) == ~(failed /\ mode = "nack")

\* faulty variant: the returned list is enqueued back to front
EventsToEnqueueReversed(emitted) ==
    [k \in 1..Len(emitted) |-> emitted[Len(emitted) + 1 - k]]

\* "events_to_enqueue = [emitted] if isinstance(emitted, Event) else emitted"
EventsToEnqueue(emitted) == emitted

\* faulty variant: the handler error is not tallied
CountHandlerErrorNot(s, o) == s

\* "self._stats.handler_errors[organ.name] += 1"
CountHandlerError(s, o) == [s EXCEPT !.handler_errors[o] = @ + 1]

\* faulty variant: FAIL mode falls through to the branch that stores and continues
EnqueueFailureRaisesOnlyInRetry(mode, attempts) == mode = "retry" /\ attempts <= 0

\* faulty variant: STORE mode raises like FAIL mode
EnqueueFailureRaisesAlways(mode, attempts) == TRUE

\* _handle_enqueue_failure: does the failure raise EnqueueError at once
\* (FAIL mode, or RETRY mode with an empty retry loop)
EnqueueFailureRaises(mode, attempts) ==
    mode = "fail" \/ (mode = "retry" /\ attempts <= 0)

\* faulty variant: off by one, the retry loop makes a further attempt
RetriesExhaustedLate(attempts_made, attempts) == attempts_made > attempts

\* "for attempt in range(self.retry_attempts)" is over after attempts_made
\* attempts
RetriesExhausted(attempts_made, attempts) == attempts_made >= attempts

\* faulty variant: the exhausted retry loop wraps the error it was called with
EnqueueErrorCauseFirst(error, last) == error

\* "raise EnqueueError(last_error)", line 275: of the error that
\* _handle_enqueue_failure was called with and the error of the last retry,
\* the one the exception wraps
EnqueueErrorCause(error, last) == last

\* faulty variant: run leaves the flag as it finds it
RunningOnEntryKept(flag) == flag

\* "self._running = True", line 291
RunningOnEntry(flag) == TRUE

\* faulty variant: the loop of run ends by itself
LoopContinuesNever(flag) == FALSE

\* faulty variant: the loop of run ignores the flag that stop() clears
LoopContinuesAlways(flag) == TRUE

\* "while self._running"
LoopContinues(flag) == flag

\* faulty variant: a failed ack is tallied as a backend (pull) error
CountAckErrorAsBackendError(s) == [s EXCEPT !.backend_errors = @ + 1]

\* faulty variant: the enqueue failure is not counted
CountEnqueueFailureNever(s, t) == s

\* "self._stats.enqueue_failures[event.event_type] += 1", line 231
CountEnqueueFailure(s, t) == [s EXCEPT !.enqueue_failures[t] = @ + 1]

\* "self._stats.ack_errors += 1"
CountAckError(s) == [s EXCEPT !.ack_errors = @ + 1]

Ids(evs) == [k \in 1..Len(evs) |-> evs[k].id]

(***************************************************************************)
(* Initial state: a Spine has been constructed over an empty backend.      *)
(***************************************************************************)
Min(a, b) == IF a <= b THEN a ELSE b
Max(a, b) == IF a >= b THEN a ELSE b

\* RedisMetrics
RedisMetrics == [events_pulled |-> 0, events_acked |-> 0, events_failed |-> 0,
                 pending_recovered |-> 0]

NoDelivery == [event |-> 0, msg |-> 0]

Tasks == {"t1", "t2"}      \* coroutines calling the methods of one backend

\* a task that is in no method of the backend
NoTask == [op |-> "none", pc |-> "idle", got |-> 0, pinged |-> 0, old |-> 0,
           fresh |-> 0, is_reconnection |-> FALSE, ev |-> 0]

\* a RedisBackend on which nothing has been called, lines 101-108
ConnIdle ==
    /\ redis = 0
    /\ connected = FALSE
    /\ conn_lock = "free"
    /\ map_lock = "free"
    /\ connections = <<>>
    /\ reconnections = 0
    /\ map_keys = {}
    /\ conn_pulled = 0
    /\ task = [t \in Tasks |-> NoTask]
    /\ writes = {}

\* organ.handle has not been called, or has returned None
NoResult == [shape |-> "None", items |-> <<>>]
NoOutcome == [kind |-> "none", result |-> NoResult]

\* the collaborators that are driven on their own elsewhere, not in use
BackendIdle ==
    /\ maxsize = 0
    /\ history = <<>>

StoreIdle ==
    /\ store_args = <<>>
    /\ store_raised = None

\* an empty stream and RedisBackend objects on which nothing has been called
StreamsIdle ==
    /\ stream = <<>>
    /\ last_delivered = 0
    /\ pending = {}
    /\ dlq_stream = <<>>
    /\ event_message_map = [c \in Consumers |-> {}]
    /\ metrics = [c \in Consumers |-> RedisMetrics]
    /\ cpc = [c \in Consumers |-> "idle"]
    /\ scan = [c \in Consumers |-> <<>>]
    /\ holding = [c \in Consumers |-> NoDelivery]
    /\ deliveries = {}
    /\ ack_returns = {}
    /\ xacks = {}
    /\ redis_client = "unconnected"
    /\ read_failures = 0
    /\ ConnIdle

\* a constructed Spine, its backend and its failed-event store left aside
ConstructedSpine ==
    /\ organs \in [1..NumOrgans -> SUBSET EventTypes]
    /\ max_steps \in 1..MaxStepsLimit
    /\ enqueue_failure_mode \in EnqueueFailureMode
    /\ handler_failure_mode \in HandlerFailureMode
    /\ retry_attempts \in
          IF enqueue_failure_mode = "retry" THEN 0..MaxRetryAttempts
          ELSE {MaxRetryAttempts}
    /\ max_consecutive_backend_failures \in 1..MaxThreshold
    /\ running = FALSE
    /\ stats = SpineStats
    /\ consecutive_pull_failures = 0
    /\ last_backend_error = None
    /\ pc = "init"
    /\ raised = NoError
    /\ event = NoEvent
    /\ organ = 0
    /\ handler_failed = FALSE
    /\ handler_error = None
    /\ events_to_enqueue = <<>>
    /\ attempt = 0
    /\ last_error = None
    /\ next_id = 1
    /\ faults = 0
    /\ invoked = <<>>
    /\ returned = <<>>
    /\ enqueue_calls = <<>>
    /\ dispatch_returned = {}
    /\ dispatch_enqueued = {}
    /\ acked_events = <<>>
    /\ store_calls = <<>>
    /\ pulled = <<>>
    /\ failed_ids = {}
    /\ resolved = {}
    /\ pull_failures = 0
    /\ pull_failure_run = 0
    /\ last_pull_error = None
    /\ handler_outcome = NoOutcome
    /\ early_stops = 0

Init ==
    /\ ConstructedSpine
    /\ failed_event_store = InMemoryFailedEventStore(MaxDlqSize)
    /\ queue = <<>>
    /\ BackendIdle
    /\ StoreIdle
    /\ StreamsIdle

\* a Spine that has been constructed and is never run
IdleSpine ==
    /\ ConstructedSpine
    /\ organs = [o \in 1..NumOrgans |-> {}]
    /\ max_steps = 1
    /\ enqueue_failure_mode = "fail"
    /\ handler_failure_mode = "log"
    /\ max_consecutive_backend_failures = 1

(***************************************************************************)
(* Spine.run, lines 345-462: after organ i has been dealt with, go on to   *)
(* the next organ that listens to ev; when there is none, resolve the      *)
(* acknowledgment by handler_failure_mode.  fes and calls are the failed-  *)
(* event store and its call log as left by the caller, inv the organs      *)
(* invoked so far.                                                         *)
(***************************************************************************)
Proceed(ev, i, failed, error, fes, calls, inv) ==
    LET j == NextOrgan(i, ev)
    IN IF j <= Len(organs)
       THEN /\ pc' = "handle"                   \* await self._invoke_handler
            /\ organ' = j
            /\ invoked' = Append(inv, j)
            /\ failed_event_store' = fes
            /\ store_calls' = calls
            /\ resolved' = resolved
       ELSE /\ organ' = 0
            /\ invoked' = inv
            /\ resolved' = resolved \cup {ev.id}
            /\ IF StoresFailedEvent(failed, handler_failure_mode)
               THEN /\ failed_event_store' = store(fes, ev, error)
                    /\ store_calls' = Append(calls, ev.id)
               ELSE /\ failed_event_store' = fes
                    /\ store_calls' = calls
            /\ pc' = IF AcksEvent(failed, handler_failure_mode)
                     THEN "ack"                 \* await self.backend.ack(event)
                     ELSE "loop"

(***************************************************************************)
(* run(start_event), lines 289-306                                         *)
(***************************************************************************)
Run ==
    /\ pc = "init"
    /\ running' = RunningOnEntry(running)
    /\ stats' = SpineStats
    /\ consecutive_pull_failures' = 0
    /\ \E start \in StartTypes \cup {None} :
          IF start = None
          THEN /\ pc' = "loop"
               /\ UNCHANGED <<events_to_enqueue, next_id>>
          ELSE /\ pc' = "start_enqueue"       \* await self.backend.enqueue
               /\ events_to_enqueue' = <<Event(next_id, start)>>
               /\ next_id' = next_id + 1
    /\ UNCHANGED <<config, standalone, last_backend_error, failed_event_store, queue, raised,
                   event, organ, handler_failed, handler_error, attempt,
                   last_error, faults, observed>>

StartEnqueueOk ==
    /\ pc = "start_enqueue"
    /\ queue' = Append(queue, Head(events_to_enqueue))
    /\ events_to_enqueue' = <<>>
    /\ pc' = "loop"
    /\ UNCHANGED <<config, standalone, spine, raised, event, organ, handler_failed,
                   handler_error, attempt, last_error, next_id, faults, observed>>

StartEnqueueFails ==
    /\ pc = "start_enqueue"
    /\ faults < MaxFaults
    /\ faults' = faults + 1
    /\ raised' = Raise("StartEnqueueError", 0, Error(faults + 1))
    /\ pc' = "done"
    /\ UNCHANGED <<config, standalone, spine, queue, event, organ, handler_failed,
                   handler_error, events_to_enqueue, attempt, last_error,
                   next_id, observed>>

(***************************************************************************)
(* The head of "while self._running", lines 308-321                        *)
(***************************************************************************)
RunReturns ==
    /\ pc = "loop"
    /\ ~LoopContinues(running)
    /\ pc' = "done"
    /\ UNCHANGED <<config, standalone, spine, queue, raised, event, organ, handler_failed,
                   handler_error, events_to_enqueue, attempt, last_error,
                   next_id, faults, observed>>

RaiseMaxSteps ==
    /\ pc = "loop"
    /\ LoopContinues(running)
    /\ MaxStepsExceeded(stats.events_processed, max_steps)
    /\ raised' = Raise("MaxStepsExceeded", 0, None)
    /\ pc' = "done"
    /\ UNCHANGED <<config, standalone, spine, queue, event, organ, handler_failed,
                   handler_error, events_to_enqueue, attempt, last_error,
                   next_id, faults, observed>>

RaiseBackendUnavailable ==
    /\ pc = "loop"
    /\ LoopContinues(running)
    /\ ~MaxStepsExceeded(stats.events_processed, max_steps)
    /\ CircuitOpen(consecutive_pull_failures, max_consecutive_backend_failures)
    /\ raised' = Raise("BackendUnavailableError", consecutive_pull_failures,
                       last_backend_error)
    /\ pc' = "done"
    /\ UNCHANGED <<config, standalone, spine, queue, event, organ, handler_failed,
                   handler_error, events_to_enqueue, attempt, last_error,
                   next_id, faults, observed>>

IssuePull ==
    /\ pc = "loop"
    /\ LoopContinues(running)
    /\ ~MaxStepsExceeded(stats.events_processed, max_steps)
    /\ ~CircuitOpen(consecutive_pull_failures, max_consecutive_backend_failures)
    /\ pc' = "pull"                           \* await self.backend.pull
    /\ UNCHANGED <<config, standalone, spine, queue, raised, event, organ, handler_failed,
                   handler_error, events_to_enqueue, attempt, last_error,
                   next_id, faults, observed>>

(***************************************************************************)
(* backend.pull returns or raises, lines 320-343                           *)
(***************************************************************************)
PullFails ==
    /\ pc = "pull"
    /\ faults < MaxFaults
    /\ faults' = faults + 1
    /\ last_backend_error' = Error(faults + 1)    \* str(e)
    /\ last_pull_error' = Error(faults + 1)
    /\ consecutive_pull_failures' = AfterFailedPull(consecutive_pull_failures)
    /\ stats' = [stats EXCEPT !.backend_errors = @ + 1]
    /\ pull_failures' = pull_failures + 1
    /\ pull_failure_run' = pull_failure_run + 1
    /\ pc' = "loop"
    /\ UNCHANGED <<config, standalone, running, failed_event_store, queue, raised, event,
                   organ, handler_failed, handler_error, events_to_enqueue,
                   attempt, last_error, next_id, invoked, returned,
                   enqueue_calls, dispatch_returned, dispatch_enqueued,
                   acked_events, store_calls, pulled, failed_ids, resolved>>

\* InMemoryBackend.pull: the timeout expires on an empty queue
PullReturnsNone ==
    /\ pc = "pull"
    /\ queue = <<>>
    /\ consecutive_pull_failures' = AfterSuccessfulPull(consecutive_pull_failures)
    /\ last_backend_error' = None
    /\ pull_failure_run' = 0
    /\ last_pull_error' = None
    /\ pc' = "loop"
    /\ UNCHANGED <<config, standalone, running, stats, failed_event_store, queue, raised,
                   event, organ, handler_failed, handler_error,
                   events_to_enqueue, attempt, last_error, next_id, faults,
                   invoked, returned, enqueue_calls, dispatch_returned,
                   dispatch_enqueued, acked_events, store_calls, pulled,
                   failed_ids, resolved, pull_failures>>

PullReturnsEvent ==
    /\ pc = "pull"
    /\ queue # <<>>
    /\ queue' = Tail(queue)
    /\ consecutive_pull_failures' = AfterSuccessfulPull(consecutive_pull_failures)
    /\ last_backend_error' = None
    /\ pull_failure_run' = 0
    /\ last_pull_error' = None
    /\ stats' = [stats EXCEPT !.events_processed = @ + 1]
    /\ event' = Head(queue)
    /\ handler_failed' = FALSE
    /\ handler_error' = None
    /\ pulled' = Append(pulled, Head(queue).id)
    /\ returned' = <<>>
    /\ enqueue_calls' = <<>>
    /\ dispatch_returned' = {}
    /\ dispatch_enqueued' = {}
    /\ Proceed(Head(queue), 0, FALSE, None, failed_event_store, store_calls, <<>>)
    /\ UNCHANGED <<config, standalone, running, raised, events_to_enqueue, attempt,
                   last_error, next_id, faults, acked_events, failed_ids,
                   pull_failures>>

(***************************************************************************)
(* organ.handle(event) raises (also the timeout and the return-type        *)
(* TypeError of _invoke_handler), lines 387-399                            *)
(***************************************************************************)
HandlerRaises ==
    /\ pc = "handle"
    /\ handler_failed' = TRUE
    /\ handler_error' = HandlerError(organ)
    /\ stats' = CountHandlerError(stats, organ)
    /\ failed_ids' = failed_ids \cup {event.id}
    /\ returned' = <<>>
    /\ enqueue_calls' = <<>>
    /\ Proceed(event, organ, TRUE, HandlerError(organ), failed_event_store,
               store_calls, invoked)
    /\ UNCHANGED <<config, standalone, running, consecutive_pull_failures,
                   last_backend_error, queue, raised, event, events_to_enqueue,
                   attempt, last_error, next_id, faults, dispatch_returned,
                   dispatch_enqueued, acked_events, pulled, pull_failures,
                   pull_failure_run, last_pull_error>>

(***************************************************************************)
(* organ.handle(event) returns None, one event or a list, lines 359-365    *)
(***************************************************************************)
HandlerReturns ==
    /\ pc = "handle"
    /\ \E k \in 0..MaxEmit : \E types \in [1..k -> EventTypes] :
          /\ next_id + k <= MaxEvents + 1
          /\ LET emitted == [n \in 1..k |-> Event(next_id + n - 1, types[n])]
             IN /\ next_id' = next_id + k
                /\ returned' = Ids(emitted)
                /\ dispatch_returned' = dispatch_returned \cup {next_id + n - 1 : n \in 1..k}
                /\ events_to_enqueue' = EventsToEnqueue(emitted)
                /\ IF EventsToEnqueue(emitted) = <<>>
                   THEN Proceed(event, organ, handler_failed, handler_error,
                                failed_event_store, store_calls, invoked)
                   ELSE /\ pc' = "enqueue"    \* await self.backend.enqueue
                        /\ UNCHANGED <<organ, invoked, failed_event_store,
                                       store_calls, resolved>>
    /\ enqueue_calls' = <<>>
    /\ UNCHANGED <<config, standalone, running, stats, consecutive_pull_failures,
                   last_backend_error, queue, raised, event, handler_failed,
                   handler_error, attempt, last_error, faults,
                   dispatch_enqueued, acked_events, pulled, failed_ids,
                   pull_failures, pull_failure_run, last_pull_error>>

(***************************************************************************)
(* The rest of "for new_event in events_to_enqueue" after the head of      *)
(* events_to_enqueue has been dealt with                                   *)
(***************************************************************************)
NextEnqueue(fes, calls) ==
    /\ events_to_enqueue' = Tail(events_to_enqueue)
    /\ IF Tail(events_to_enqueue) = <<>>
       THEN Proceed(event, organ, handler_failed, handler_error, fes, calls,
                    invoked)
       ELSE /\ pc' = "enqueue"
            /\ failed_event_store' = fes
            /\ store_calls' = calls
            /\ UNCHANGED <<organ, invoked, resolved>>

\* backend.enqueue(new_event) returns, lines 367-369
EnqueueOk ==
    /\ pc = "enqueue"
    /\ queue' = Append(queue, Head(events_to_enqueue))
    /\ stats' = [stats EXCEPT !.events_emitted = @ + 1]
    /\ enqueue_calls' = Append(enqueue_calls, Head(events_to_enqueue).id)
    /\ dispatch_enqueued' = dispatch_enqueued \cup {Head(events_to_enqueue).id}
    /\ NextEnqueue(failed_event_store, store_calls)
    /\ UNCHANGED <<config, standalone, running, consecutive_pull_failures,
                   last_backend_error, raised, event, handler_failed,
                   handler_error, attempt, last_error, next_id, faults,
                   returned, dispatch_returned, acked_events, pulled,
                   failed_ids, pull_failures, pull_failure_run, last_pull_error>>

\* backend.enqueue(new_event) raises: _handle_enqueue_failure, lines 230-287
EnqueueFails ==
    /\ pc = "enqueue"
    /\ faults < MaxFaults
    /\ faults' = faults + 1
    /\ stats' = CountEnqueueFailure(stats, Head(events_to_enqueue).event_type)
    /\ enqueue_calls' = Append(enqueue_calls, Head(events_to_enqueue).id)
    /\ dispatch_enqueued' = dispatch_enqueued \cup {Head(events_to_enqueue).id}
    /\ LET e == Error(faults + 1) IN
          IF EnqueueFailureRaises(enqueue_failure_mode, retry_attempts)
          THEN /\ raised' = Raise("EnqueueError", 0, e)
               /\ pc' = "done"
               /\ UNCHANGED <<organ, invoked, failed_event_store, store_calls,
                              resolved, events_to_enqueue, attempt, last_error>>
          ELSE IF enqueue_failure_mode = "retry"
          THEN /\ last_error' = e
               /\ attempt' = 0
               /\ pc' = "retry"               \* await asyncio.sleep(delay)
               /\ UNCHANGED <<organ, invoked, failed_event_store, store_calls,
                              resolved, events_to_enqueue, raised>>
          ELSE /\ NextEnqueue(store(failed_event_store, Head(events_to_enqueue), e),
                              Append(store_calls, Head(events_to_enqueue).id))
               /\ UNCHANGED <<raised, attempt, last_error>>
    /\ UNCHANGED <<config, standalone, running, consecutive_pull_failures,
                   last_backend_error, queue, event, handler_failed,
                   handler_error, next_id, returned, dispatch_returned,
                   acked_events, pulled, failed_ids, pull_failures,
                   pull_failure_run, last_pull_error>>

\* the retried backend.enqueue(event) returns, lines 260-262
RetryOk ==
    /\ pc = "retry"
    /\ queue' = Append(queue, Head(events_to_enqueue))
    /\ enqueue_calls' = Append(enqueue_calls, Head(events_to_enqueue).id)
    /\ NextEnqueue(failed_event_store, store_calls)
    /\ UNCHANGED <<config, standalone, running, stats, consecutive_pull_failures,
                   last_backend_error, raised, event, handler_failed,
                   handler_error, attempt, last_error, next_id, faults,
                   returned, dispatch_returned, dispatch_enqueued,
                   acked_events, pulled, failed_ids, pull_failures,
                   pull_failure_run, last_pull_error>>

\* the retried backend.enqueue(event) raises, lines 263-275
RetryFails ==
    /\ pc = "retry"
    /\ faults < MaxFaults
    /\ faults' = faults + 1
    /\ enqueue_calls' = Append(enqueue_calls, Head(events_to_enqueue).id)
    /\ attempt' = attempt + 1
    /\ LET e == Error(faults + 1)
           \* the argument "error": the failures since the call are the
           \* "attempt" retries, so it is the failure before them
           error == Error(faults - attempt) IN
          /\ last_error' = e
          /\ IF RetriesExhausted(attempt + 1, retry_attempts)
             THEN /\ raised' = Raise("EnqueueError", 0,
                                     EnqueueErrorCause(error, e))
                  /\ pc' = "done"
             ELSE /\ pc' = "retry"
                  /\ UNCHANGED raised
    /\ UNCHANGED <<config, standalone, spine, queue, event, organ, handler_failed,
                   handler_error, events_to_enqueue, next_id, invoked,
                   returned, dispatch_returned, dispatch_enqueued,
                   acked_events, store_calls, pulled, failed_ids, resolved,
                   pull_failures, pull_failure_run, last_pull_error>>

(***************************************************************************)
(* backend.ack(event) returns or raises, lines 414-462                     *)
(***************************************************************************)
AckOk ==
    /\ pc = "ack"
    /\ acked_events' = Append(acked_events, event.id)
    /\ pc' = "loop"
    /\ UNCHANGED <<config, standalone, spine, queue, raised, event, organ, handler_failed,
                   handler_error, events_to_enqueue, attempt, last_error,
                   next_id, faults, invoked, returned, enqueue_calls,
                   dispatch_returned, dispatch_enqueued, store_calls, pulled,
                   failed_ids, resolved, pull_failures, pull_failure_run,
                   last_pull_error>>

AckFails ==
    /\ pc = "ack"
    /\ faults < MaxFaults
    /\ faults' = faults + 1
    /\ acked_events' = Append(acked_events, event.id)
    /\ stats' = CountAckError(stats)
    /\ pc' = "loop"
    /\ UNCHANGED <<config, standalone, running, consecutive_pull_failures,
                   last_backend_error, failed_event_store, queue, raised, event,
                   organ, handler_failed, handler_error, events_to_enqueue,
                   attempt, last_error, next_id, invoked, returned,
                   enqueue_calls, dispatch_returned, dispatch_enqueued,
                   store_calls, pulled, failed_ids, resolved, pull_failures,
                   pull_failure_run, last_pull_error>>

(***************************************************************************)
(* stop(), lines 208-209, called while run is suspended at an await        *)
(***************************************************************************)
Suspended == pc \in {"start_enqueue", "pull", "handle", "enqueue", "retry", "ack"}

Stop ==
    /\ Suspended
    /\ running
    /\ running' = FALSE
    /\ UNCHANGED <<config, standalone, stats, consecutive_pull_failures, last_backend_error,
                   failed_event_store, queue, coroutine, next_id, faults,
                   observed>>

(***************************************************************************)
(* stop(), lines 208-209, called on a Spine whose run has not been called  *)
(***************************************************************************)
StopBeforeRun ==
    /\ pc = "init"
    /\ early_stops < MaxEarlyStops
    /\ early_stops' = early_stops + 1
    /\ running' = FALSE
    /\ UNCHANGED <<config, backend_obs, store_obs, streams, handler_outcome,
                   stats, consecutive_pull_failures, last_backend_error,
                   failed_event_store, queue, coroutine, next_id, faults,
                   observed>>

Next ==
    \/ Run
    \/ StartEnqueueOk
    \/ StartEnqueueFails
    \/ RunReturns
    \/ RaiseMaxSteps
    \/ RaiseBackendUnavailable
    \/ IssuePull
    \/ PullFails
    \/ PullReturnsNone
    \/ PullReturnsEvent
    \/ HandlerRaises
    \/ HandlerReturns
    \/ EnqueueOk
    \/ EnqueueFails
    \/ RetryOk
    \/ RetryFails
    \/ AckOk
    \/ AckFails
    \/ Stop

Spec == Init /\ [][Next]_vars

\* Every await of run completes: backend.pull returns within its timeout,
\* _invoke_handler within handler_timeout, asyncio.sleep after its delay, and
\* the event loop resumes the coroutine; enqueue and ack return or raise.
FairSpec == Spec /\ WF_vars(Next)

(***************************************************************************)
(* A Spine over a backend that never raises, whose caller may call stop()  *)
(* before it calls run().                                                  *)
(***************************************************************************)
EarlyStopNext ==
    \/ StopBeforeRun
    \/ Run
    \/ StartEnqueueOk
    \/ RunReturns
    \/ RaiseMaxSteps
    \/ IssuePull
    \/ PullReturnsNone
    \/ PullReturnsEvent
    \/ HandlerRaises
    \/ HandlerReturns
    \/ EnqueueOk
    \/ AckOk
    \/ Stop

EarlyStopInit ==
    /\ Init
    /\ enqueue_failure_mode = "fail"
    /\ max_consecutive_backend_failures = 1

EarlyStopSpec == EarlyStopInit /\ [][EarlyStopNext]_vars

(***************************************************************************)
(* InMemoryBackend driven on its own: any caller may enqueue any event     *)
(* and pull, in any order (necrostack/backends/inmemory.py).  enqueue and  *)
(* pull on an asyncio.Queue complete without another coroutine running in  *)
(* between, except for a pull waiting on an empty queue, which returns     *)
(* what a pull issued at the moment it is served would return.             *)
(***************************************************************************)
BackendEvents == {Event(i, "A") : i \in 1..NumBackendEvents}

\* a call that has returned: ev is the id of the event passed to enqueue or
\* returned by pull (0: pull returned None), exc the exception raised
Call(op, ev, exc) == [op |-> op, event |-> ev, raised |-> exc]

\* faulty variant: off by one, a full queue takes one more event
QueueFullLate(q, size) == size > 0 /\ Len(q) > size

\* asyncio.Queue.full(), on which put_nowait raises QueueFull: never with
\* maxsize 0
QueueFull(q, size) == size > 0 /\ Len(q) >= size

\* faulty variant: pull takes the newest event
QueueGetNewest(q) == [item |-> q[Len(q)], rest |-> SubSeq(q, 1, Len(q) - 1)]

\* asyncio.Queue.get(): the oldest event leaves the queue
QueueGet(q) == [item |-> Head(q), rest |-> Tail(q)]

BackendInit ==
    /\ IdleSpine
    /\ failed_event_store = InMemoryFailedEventStore(MaxDlqSize)
    /\ queue = <<>>
    /\ maxsize \in 0..MaxQueueSize
    /\ history = <<>>
    /\ StoreIdle
    /\ StreamsIdle

\* InMemoryBackend.enqueue(ev)
BackendEnqueue ==
    /\ Len(history) < MaxCalls
    /\ \E ev \in BackendEvents :
          IF QueueFull(queue, maxsize)
          THEN /\ history' = Append(history, Call("enqueue", ev.id, "BackendFullError"))
               /\ UNCHANGED queue
          ELSE /\ queue' = Append(queue, ev)
               /\ history' = Append(history, Call("enqueue", ev.id, None))
    /\ UNCHANGED <<spine_idle, failed_event_store, maxsize, store_obs, streams>>

\* InMemoryBackend.pull(timeout) returns an event
BackendPull ==
    /\ Len(history) < MaxCalls
    /\ queue # <<>>
    /\ queue' = QueueGet(queue).rest
    /\ history' = Append(history, Call("pull", QueueGet(queue).item.id, None))
    /\ UNCHANGED <<spine_idle, failed_event_store, maxsize, store_obs, streams>>

\* InMemoryBackend.pull(timeout): the timeout expires
BackendPullTimeout ==
    /\ Len(history) < MaxCalls
    /\ queue = <<>>
    /\ history' = Append(history, Call("pull", 0, None))
    /\ UNCHANGED <<spine_idle, queue, failed_event_store, maxsize, store_obs, streams>>

BackendNext ==
    \/ BackendEnqueue
    \/ BackendPull
    \/ BackendPullTimeout

BackendSpec == BackendInit /\ [][BackendNext]_vars

(***************************************************************************)
(* InMemoryFailedEventStore driven on its own: n store calls on a store    *)
(* of any max_size, without clear (spine.py, lines 87-118).                *)
(***************************************************************************)
\* store: "self._events.pop(0)" raises IndexError on an empty list, which is
\* reached when len(self._events) >= self._max_size holds for an empty store
StoreRaises(s) == Len(s.events) >= s.max_size /\ s.events = <<>>

StoreInit ==
    /\ IdleSpine
    /\ failed_event_store \in {InMemoryFailedEventStore(m) : m \in 0..MaxStoreSize}
    /\ queue = <<>>
    /\ BackendIdle
    /\ StoreIdle
    /\ StreamsIdle

\* store(event, error) returns
StoreCall ==
    /\ Len(store_args) < MaxStoreCalls
    /\ ~StoreRaises(failed_event_store)
    /\ \E t \in EventTypes :
          LET n == Len(store_args) + 1
          IN /\ store_args' = Append(store_args, <<Event(n, t), Error(n)>>)
             /\ failed_event_store' = store(failed_event_store, Event(n, t), Error(n))
    /\ store_raised' = None
    /\ UNCHANGED <<spine_idle, queue, backend_obs, streams>>

\* store(event, error) raises
StoreCallRaises ==
    /\ Len(store_args) < MaxStoreCalls
    /\ StoreRaises(failed_event_store)
    /\ \E t \in EventTypes :
          LET n == Len(store_args) + 1
          IN store_args' = Append(store_args, <<Event(n, t), Error(n)>>)
    /\ store_raised' = "IndexError"
    /\ UNCHANGED <<spine_idle, failed_event_store, queue, backend_obs, streams>>

StoreNext ==
    \/ StoreCall
    \/ StoreCallRaises

StoreSpec == StoreInit /\ [][StoreNext]_vars

(***************************************************************************)
(* RedisBackend (necrostack/backends/redis_backend.py): one stream, one    *)
(* consumer group, one backend object per consumer.  Each consumer drives  *)
(* its backend as Spine does: pull, then at most one of ack and nack for   *)
(* the event returned, or nothing at all (a crash, NACK mode).  A Redis    *)
(* command is atomic; the commands of one pull are separate steps, so the  *)
(* pulls of the consumers interleave command by command.  The clock ticks  *)
(* between any two commands.                                               *)
(***************************************************************************)
\* faulty variant: the mapping for ack is not kept
MapStoreNothing(map, ev, msg) == map

\* _deserialize: "self._event_message_map[event.id] = msg_id"
MapStore(map, ev, msg) ==
    {p \in map : p.event # ev} \cup {[event |-> ev, msg |-> msg]}

\* "self._event_message_map.get(event.id)": the set is empty when there is none
MapGet(map, ev) == {p.msg : p \in {q \in map : q.event = ev}}

\* "self._event_message_map.pop(event.id, None)"
MapPop(map, ev) == {p \in map : p.event # ev}

\* faulty variant: a pending message is claimed however short it has been idle
IdleEnoughAlways(idle) == TRUE

\* an idle time reaches self._claim_min_idle_ms: the test of _recover_pending
\* (negated, "continue") and the min_idle_time passed to XCLAIM
IdleEnough(idle) == idle >= ClaimMinIdle

\* faulty variant: a message is never dead-lettered
RetriesSpentNever(delivery_count) == FALSE

\* faulty variant: one delivery more before a message is dead-lettered
RetriesSpentLate(delivery_count) == delivery_count > MaxRetries

\* "if delivery_count >= self._max_retries"
RetriesSpent(delivery_count) == delivery_count >= MaxRetries

\* XPENDING stream group - + 10: the pending entries by ascending message id
RECURSIVE XPendingFrom(_)
XPendingFrom(m) ==
    IF m > Len(stream) THEN <<>>
    ELSE LET found == {e \in pending : e.msg = m}
         IN (IF found = {} THEN <<>>
             ELSE LET e == CHOOSE x \in found : TRUE
                  IN <<[message_id |-> e.msg, time_since_delivered |-> e.idle,
                        times_delivered |-> e.times_delivered]>>)
            \o XPendingFrom(m + 1)
\* "count=10", line 230
XPendingCount == 10

\* faulty variant: XPENDING returns every pending entry
XPendingRangeAll == XPendingFrom(1)

XPendingRange ==
    LET all == XPendingFrom(1)
    IN SubSeq(all, 1, Min(Len(all), XPendingCount))

\* XACK stream group msg
XAck(msg) == {e \in pending : e.msg # msg}

\* faulty variant: XCLAIM transfers nothing
ClaimableNever(msg) == {}

\* the entries XCLAIM with min_idle_time would transfer
Claimable(msg) == {e \in pending : e.msg = msg /\ IdleEnough(e.idle)}

\* faulty variant: the dead-letter entry carries no reason
DlqEntryBare(msg, reason) ==
    [original_id |-> msg, event |-> stream[msg], failed_at |-> "now"]

\* the fields _move_to_dlq adds to the dead-letter stream; the payload is
\* copied from the stream entry, failed_at is the time of the call
DlqEntry(msg, reason) ==
    [original_id |-> msg, event |-> stream[msg], reason |-> reason,
     failed_at |-> "now"]

\* a return of pull: via is "new" (XREADGROUP) or "claimed" (XCLAIM), idle the
\* idle time the message had when it was claimed, attempt its delivery count
Delivery(c, ev, msg, via, idle, count) ==
    [consumer |-> c, event |-> ev, msg |-> msg, via |-> via, idle |-> idle,
     attempt |-> count]

StreamsInit ==
    /\ IdleSpine
    /\ failed_event_store = InMemoryFailedEventStore(MaxDlqSize)
    /\ queue = <<>>
    /\ BackendIdle
    /\ StoreIdle
    /\ StreamsIdle

others == <<spine_idle, failed_event_store, queue, backend_obs, store_obs,
            redis_client, read_failures, conn>>

\* enqueue(event) of some backend on the stream: XADD of a new event
XAdd ==
    /\ Len(stream) < MaxStreamLen
    /\ stream' = Append(stream, Len(stream) + 1)
    /\ UNCHANGED <<others, last_delivered, pending, dlq_stream, event_message_map, metrics, cpc, scan, holding, deliveries,
                   ack_returns, xacks>>

\* time passes: every pending message grows idle (the model stops counting
\* at claim_min_idle_ms)
Tick ==
    /\ \E e \in pending : e.idle < ClaimMinIdle
    /\ pending' = {[e EXCEPT !.idle = Min(e.idle + 1, ClaimMinIdle)] : e \in pending}
    /\ UNCHANGED <<others, stream, last_delivered, dlq_stream, event_message_map, metrics, cpc, scan, holding, deliveries,
                   ack_returns, xacks>>

\* pull, lines 306-312, and _recover_pending up to XPENDING, lines 220-233
PullStart(c) ==
    /\ cpc[c] = "idle"
    /\ holding[c] = NoDelivery
    /\ scan' = [scan EXCEPT ![c] = XPendingRange]
    /\ cpc' = [cpc EXCEPT ![c] = "recover"]
    /\ UNCHANGED <<others, stream, last_delivered, pending, dlq_stream,
                   event_message_map, metrics, holding,
                   deliveries, ack_returns, xacks>>

\* _recover_pending, lines 235-241: the entry has not been idle long enough
RecoverSkip(c) ==
    /\ cpc[c] = "recover"
    /\ scan[c] # <<>>
    /\ ~IdleEnough(Head(scan[c]).time_since_delivered)
    /\ scan' = [scan EXCEPT ![c] = Tail(@)]
    /\ UNCHANGED <<others, stream, last_delivered, pending, dlq_stream,
                   event_message_map, metrics, cpc, holding,
                   deliveries, ack_returns, xacks>>

\* _recover_pending, lines 243-246, and _move_to_dlq, lines 265-289
RecoverDlq(c) ==
    /\ cpc[c] = "recover"
    /\ scan[c] # <<>>
    /\ IdleEnough(Head(scan[c]).time_since_delivered)
    /\ RetriesSpent(Head(scan[c]).times_delivered)
    /\ LET msg == Head(scan[c]).message_id
       IN /\ dlq_stream' = Append(dlq_stream,
                                  DlqEntry(msg, "Exceeded delivery attempts"))
          /\ pending' = XAck(msg)
          /\ xacks' = xacks \cup {[msg |-> msg, by |-> "dlq"]}
    /\ metrics' = [metrics EXCEPT ![c].events_failed = @ + 1]
    /\ scan' = [scan EXCEPT ![c] = Tail(@)]
    /\ UNCHANGED <<others, stream, last_delivered, event_message_map, cpc, holding, deliveries, ack_returns>>

\* _recover_pending, lines 248-261: XCLAIM, and _deserialize when it claimed
RecoverClaim(c) ==
    /\ cpc[c] = "recover"
    /\ scan[c] # <<>>
    /\ IdleEnough(Head(scan[c]).time_since_delivered)
    /\ ~RetriesSpent(Head(scan[c]).times_delivered)
    /\ LET msg == Head(scan[c]).message_id
           claimed == Claimable(msg)
       IN IF claimed = {}
          THEN /\ scan' = [scan EXCEPT ![c] = Tail(@)]
               /\ UNCHANGED <<pending, metrics, event_message_map, holding,
                              deliveries, cpc>>
          ELSE LET e == CHOOSE x \in claimed : TRUE
               IN /\ pending' = XAck(msg) \cup
                                   {[msg |-> msg, consumer |-> c, idle |-> 0,
                                     times_delivered |-> e.times_delivered + 1]}
                  /\ metrics' = [metrics EXCEPT ![c].pending_recovered = @ + 1]
                  /\ event_message_map' =
                        [event_message_map EXCEPT ![c] = MapStore(@, stream[msg], msg)]
                  /\ holding' = [holding EXCEPT ![c] = [event |-> stream[msg], msg |-> msg]]
                  /\ deliveries' = deliveries \cup
                        {Delivery(c, stream[msg], msg, "claimed", e.idle,
                                  e.times_delivered + 1)}
                  /\ scan' = [scan EXCEPT ![c] = <<>>]
                  /\ cpc' = [cpc EXCEPT ![c] = "idle"]
    /\ UNCHANGED <<others, stream, last_delivered, dlq_stream, ack_returns, xacks>>

\* _recover_pending returns None, line 263
RecoverNone(c) ==
    /\ cpc[c] = "recover"
    /\ scan[c] = <<>>
    /\ cpc' = [cpc EXCEPT ![c] = "read"]
    /\ UNCHANGED <<others, stream, last_delivered, pending, dlq_stream,
                   event_message_map, metrics, scan, holding,
                   deliveries, ack_returns, xacks>>

\* pull, lines 316-340: XREADGROUP ">" delivers the next new message
ReadNew(c) ==
    /\ cpc[c] = "read"
    /\ last_delivered < Len(stream)
    /\ LET msg == last_delivered + 1
       IN /\ last_delivered' = msg
          /\ pending' = pending \cup {[msg |-> msg, consumer |-> c, idle |-> 0,
                                       times_delivered |-> 1]}
          /\ event_message_map' =
                [event_message_map EXCEPT ![c] = MapStore(@, stream[msg], msg)]
          /\ holding' = [holding EXCEPT ![c] = [event |-> stream[msg], msg |-> msg]]
          /\ deliveries' = deliveries \cup {Delivery(c, stream[msg], msg, "new", 0, 1)}
    /\ metrics' = [metrics EXCEPT ![c].events_pulled = @ + 1]
    /\ cpc' = [cpc EXCEPT ![c] = "idle"]
    /\ UNCHANGED <<others, stream, dlq_stream, scan, ack_returns,
                   xacks>>

\* pull, lines 330-331: the block time expires with no new message
ReadNone(c) ==
    /\ cpc[c] = "read"
    /\ last_delivered >= Len(stream)
    /\ cpc' = [cpc EXCEPT ![c] = "idle"]
    /\ UNCHANGED <<others, stream, last_delivered, pending, dlq_stream,
                   event_message_map, metrics, scan, holding,
                   deliveries, ack_returns, xacks>>

\* pull, lines 325-328: XREADGROUP fails, pull returns None
ReadFails(c) ==
    /\ cpc[c] = "read"
    /\ cpc' = [cpc EXCEPT ![c] = "idle"]
    /\ UNCHANGED <<others, stream, last_delivered, pending, dlq_stream,
                   event_message_map, metrics, scan, holding, deliveries,
                   ack_returns, xacks>>

\* ack(event), lines 342-372, XACK succeeding when there is a mapping
Ack(c) ==
    /\ cpc[c] = "idle"
    /\ holding[c] # NoDelivery
    /\ LET ids == MapGet(event_message_map[c], holding[c].event)
       IN IF ids = {}
          THEN UNCHANGED <<pending, xacks, metrics, event_message_map>>
          ELSE LET msg == CHOOSE m \in ids : TRUE
               IN /\ pending' = XAck(msg)
                  /\ xacks' = xacks \cup {[msg |-> msg, by |-> "ack"]}
                  /\ metrics' = [metrics EXCEPT ![c].events_acked = @ + 1]
                  /\ event_message_map' =
                        [event_message_map EXCEPT ![c] = MapPop(@, holding[c].event)]
    /\ ack_returns' = ack_returns \cup {holding[c]}
    /\ holding' = [holding EXCEPT ![c] = NoDelivery]
    /\ UNCHANGED <<others, stream, last_delivered, dlq_stream, cpc,
                   scan, deliveries>>

\* ack(event), lines 366-372: XACK fails, ack raises, the mapping is dropped
AckRaises(c) ==
    /\ cpc[c] = "idle"
    /\ holding[c] # NoDelivery
    /\ MapGet(event_message_map[c], holding[c].event) # {}
    /\ event_message_map' =
          [event_message_map EXCEPT ![c] = MapPop(@, holding[c].event)]
    /\ holding' = [holding EXCEPT ![c] = NoDelivery]
    /\ UNCHANGED <<others, stream, last_delivered, pending, dlq_stream, metrics,
                   cpc, scan, deliveries, ack_returns, xacks>>

\* ack(event), line 361: _get_client raises (the connection is lost and cannot
\* be opened again) before the try statement is entered; the finally clause
\* does not run
AckConnectFails(c) ==
    /\ cpc[c] = "idle"
    /\ holding[c] # NoDelivery
    /\ MapGet(event_message_map[c], holding[c].event) # {}
    /\ holding' = [holding EXCEPT ![c] = NoDelivery]
    /\ UNCHANGED <<others, stream, last_delivered, pending, dlq_stream, metrics,
                   event_message_map, cpc, scan, deliveries, ack_returns, xacks>>

\* ack(event), lines 354-359, for an event the backend holds no mapping of (it
\* was acked before, or never pulled): a warning, and ack returns
AckUnmapped(c) ==
    /\ cpc[c] = "idle"
    /\ holding[c] = NoDelivery
    /\ \E ev \in 1..Len(stream) :
          /\ MapGet(event_message_map[c], ev) = {}
          /\ [event |-> ev, msg |-> 0] \notin ack_returns
          /\ ack_returns' = ack_returns \cup {[event |-> ev, msg |-> 0]}
    /\ UNCHANGED <<others, stream, last_delivered, pending, dlq_stream, metrics,
                   event_message_map, cpc, scan, holding, deliveries, xacks>>

\* nack(event, reason), lines 374-401, and _move_to_dlq, lines 265-289
Nack(c) ==
    /\ cpc[c] = "idle"
    /\ holding[c] # NoDelivery
    /\ LET ids == MapGet(event_message_map[c], holding[c].event)
       IN IF ids = {}
          THEN UNCHANGED <<pending, xacks, metrics, event_message_map, dlq_stream>>
          ELSE LET msg == CHOOSE m \in ids : TRUE
               IN /\ dlq_stream' = Append(dlq_stream,
                                          DlqEntry(msg, "Processing failed"))
                  /\ pending' = XAck(msg)
                  /\ xacks' = xacks \cup {[msg |-> msg, by |-> "nack"]}
                  /\ metrics' = [metrics EXCEPT ![c].events_failed = @ + 1]
                  /\ event_message_map' =
                        [event_message_map EXCEPT ![c] = MapPop(@, holding[c].event)]
    /\ holding' = [holding EXCEPT ![c] = NoDelivery]
    /\ UNCHANGED <<others, stream, last_delivered, cpc, scan,
                   deliveries, ack_returns>>

\* nack(event, reason) when _move_to_dlq fails before it has written to the DLQ
\* stream (no connection, XRANGE or XADD raises): lines 267-282, 288-289 and
\* 398-401
NackMoveFails(c) ==
    /\ cpc[c] = "idle"
    /\ holding[c] # NoDelivery
    /\ MapGet(event_message_map[c], holding[c].event) # {}
    /\ event_message_map' =
          [event_message_map EXCEPT ![c] = MapPop(@, holding[c].event)]
    /\ holding' = [holding EXCEPT ![c] = NoDelivery]
    /\ UNCHANGED <<others, stream, last_delivered, pending, dlq_stream, metrics,
                   cpc, scan, deliveries, ack_returns, xacks>>

\* nack(event, reason) when the XACK of _move_to_dlq raises: the DLQ entry is
\* written, the message stays pending, lines 274-289 and 398-401
NackXackFails(c) ==
    /\ cpc[c] = "idle"
    /\ holding[c] # NoDelivery
    /\ MapGet(event_message_map[c], holding[c].event) # {}
    /\ LET msg == CHOOSE m \in MapGet(event_message_map[c], holding[c].event) : TRUE
       IN dlq_stream' = Append(dlq_stream, DlqEntry(msg, "Processing failed"))
    /\ event_message_map' =
          [event_message_map EXCEPT ![c] = MapPop(@, holding[c].event)]
    /\ holding' = [holding EXCEPT ![c] = NoDelivery]
    /\ UNCHANGED <<others, stream, last_delivered, pending, metrics,
                   cpc, scan, deliveries, ack_returns, xacks>>

\* the consumer gives the event up without ack or nack (it crashed, or its
\* Spine runs in NACK mode)
Drop(c) ==
    /\ cpc[c] = "idle"
    /\ holding[c] # NoDelivery
    /\ holding' = [holding EXCEPT ![c] = NoDelivery]
    /\ UNCHANGED <<others, stream, last_delivered, pending, dlq_stream,
                   event_message_map, metrics, cpc, scan,
                   deliveries, ack_returns, xacks>>

StreamsNext ==
    \/ XAdd
    \/ Tick
    \/ \E c \in Consumers : PullStart(c)
    \/ \E c \in Consumers : RecoverSkip(c)
    \/ \E c \in Consumers : RecoverDlq(c)
    \/ \E c \in Consumers : RecoverClaim(c)
    \/ \E c \in Consumers : RecoverNone(c)
    \/ \E c \in Consumers : ReadNew(c)
    \/ \E c \in Consumers : ReadNone(c)
    \/ \E c \in Consumers : ReadFails(c)
    \/ \E c \in Consumers : Ack(c)
    \/ \E c \in Consumers : AckRaises(c)
    \/ \E c \in Consumers : Nack(c)
    \/ \E c \in Consumers : Drop(c)

StreamsSpec == StreamsInit /\ [][StreamsNext]_vars

(***************************************************************************)
(* The pull of one streams backend that is the only consumer of its group  *)
(***************************************************************************)
OnlyConsumer == "c1"

OnlyPull ==
    \/ PullStart(OnlyConsumer)
    \/ RecoverSkip(OnlyConsumer)
    \/ RecoverDlq(OnlyConsumer)
    \/ RecoverClaim(OnlyConsumer)
    \/ RecoverNone(OnlyConsumer)
    \/ ReadNew(OnlyConsumer)
    \/ ReadNone(OnlyConsumer)

(***************************************************************************)
(* One Spine with handler_failure_mode = NACK on a streams backend, the    *)
(* only consumer of its group, and handlers that fail on every event: run  *)
(* pulls, dispatches, does not ack (spine.py, lines 426-434) and pulls     *)
(* again.                                                                  *)
(***************************************************************************)
NackModeNext ==
    \/ XAdd
    \/ Tick
    \/ OnlyPull
    \/ Drop(OnlyConsumer)

NackModeSpec == StreamsInit /\ [][NackModeNext]_vars

\* the clock advances and the run loop keeps going
NackModeFairSpec ==
    NackModeSpec /\ WF_vars(Tick) /\ WF_vars(OnlyPull \/ Drop(OnlyConsumer))

(***************************************************************************)
(* One streams backend, the only consumer of its group, whose caller       *)
(* answers every event it pulls with nack(event, reason); the Redis        *)
(* commands of _move_to_dlq may fail.                                      *)
(***************************************************************************)
NackNext ==
    \/ XAdd
    \/ Tick
    \/ OnlyPull
    \/ Nack(OnlyConsumer)
    \/ NackMoveFails(OnlyConsumer)
    \/ NackXackFails(OnlyConsumer)

NackSpec == StreamsInit /\ [][NackNext]_vars

(***************************************************************************)
(* The pulls of one streams backend on a group with a long pending list:   *)
(* another consumer has pulled the first messages of the stream and has    *)
(* acked none.  Of these the first "recent" ones were delivered to it a    *)
(* second time a moment ago, the others have been idle for                 *)
(* claim_min_idle_ms, the ones up to "spent" after a second delivery.      *)
(* The stream may hold one message more, not yet delivered.  No time       *)
(* passes while the backend pulls.                                         *)
(***************************************************************************)
LongPending(recent, spent) ==
    {[msg |-> m, consumer |-> "c2",
      idle |-> IF m <= recent THEN 0 ELSE ClaimMinIdle,
      times_delivered |-> IF m <= spent THEN 2 ELSE 1] : m \in 1..(XPendingCount + 1)}

WindowInit ==
    /\ IdleSpine
    /\ failed_event_store = InMemoryFailedEventStore(MaxDlqSize)
    /\ queue = <<>>
    /\ BackendIdle
    /\ StoreIdle
    /\ \E n \in {XPendingCount + 1, XPendingCount + 2} :
          stream = [m \in 1..n |-> m]
    /\ last_delivered = XPendingCount + 1
    /\ \E recent \in 0..(XPendingCount + 1) :
          \E spent \in recent..(XPendingCount + 1) :
             pending = LongPending(recent, spent)
    /\ dlq_stream = <<>>
    /\ event_message_map = [c \in Consumers |-> {}]
    /\ metrics = [c \in Consumers |-> RedisMetrics]
    /\ cpc = [c \in Consumers |-> "idle"]
    /\ scan = [c \in Consumers |-> <<>>]
    /\ holding = [c \in Consumers |-> NoDelivery]
    /\ deliveries = {}
    /\ ack_returns = {}
    /\ xacks = {}
    /\ redis_client = "unconnected"
    /\ read_failures = 0
    /\ ConnIdle

WindowNext ==
    \/ OnlyPull
    \/ Drop(OnlyConsumer)

WindowSpec == WindowInit /\ [][WindowNext]_vars

(***************************************************************************)
(* One streams backend, the only consumer of its group, whose caller       *)
(* answers every event it pulls with ack(event), and may call ack for an   *)
(* event it holds no more; the connection and the XACK may fail.           *)
(***************************************************************************)
AckNext ==
    \/ XAdd
    \/ Tick
    \/ OnlyPull
    \/ Ack(OnlyConsumer)
    \/ AckRaises(OnlyConsumer)
    \/ AckConnectFails(OnlyConsumer)
    \/ AckUnmapped(OnlyConsumer)

AckSpec == StreamsInit /\ [][AckNext]_vars

(***************************************************************************)
(* Spine.run with no start event on a streams backend whose stream stays   *)
(* empty and whose transport may fail: what run sees of a pull that meets  *)
(* a transport error.  A pull is one step here; no other consumer is       *)
(* involved.                                                               *)
(***************************************************************************)
\* the Redis operation of a pull that fails: connecting (_get_client raises
\* when neither ping nor the reconnection succeeds) or XREADGROUP
TransportFailures == {"connection", "xreadgroup"}

\* faulty variant: pull lets every transport error through
PullPropagatesAlways(failure) == TRUE

\* whether the failure leaves pull as an exception: _ensure_consumer_group
\* and _get_client are called outside any try (lines 308-309), the failure of
\* XREADGROUP is caught by pull, which returns None (lines 325-328)
PullPropagates(failure) == failure = "connection"

\* self._redis after the pull: "self._redis = None" after a failed XREADGROUP,
\* a committed connection otherwise, the old handle when connecting failed
ClientAfterPull(client, failure) ==
    CASE failure = "connection" -> client
      [] failure = "xreadgroup" -> "cleared"
      [] OTHER -> "open"

\* run, lines 324-336: backend.pull has raised error
PullRaised(error) ==
    /\ last_backend_error' = error
    /\ last_pull_error' = error
    /\ consecutive_pull_failures' = AfterFailedPull(consecutive_pull_failures)
    /\ stats' = [stats EXCEPT !.backend_errors = @ + 1]
    /\ pull_failures' = pull_failures + 1
    /\ pull_failure_run' = pull_failure_run + 1
    /\ pc' = "loop"

\* run, lines 321-323 and 338-339: backend.pull has returned None
PullReturnedNone ==
    /\ last_backend_error' = None
    /\ last_pull_error' = None
    /\ consecutive_pull_failures' = AfterSuccessfulPull(consecutive_pull_failures)
    /\ pull_failure_run' = 0
    /\ pc' = "loop"
    /\ UNCHANGED <<stats, pull_failures>>

\* run(None)
RedisRun == Run /\ pc' = "loop"

\* backend.pull meets a transport error; faults counts these pulls
RedisPullFails(failure) ==
    /\ pc = "pull"
    /\ faults < MaxFaults
    /\ faults' = faults + 1
    /\ redis_client' = ClientAfterPull(redis_client, failure)
    /\ read_failures' = read_failures + (IF failure = "xreadgroup" THEN 1 ELSE 0)
    /\ IF PullPropagates(failure)
       THEN PullRaised(Error(faults + 1))
       ELSE PullReturnedNone
    /\ UNCHANGED <<config, handler_outcome, early_stops, conn, backend_obs, store_obs, stream,
                   last_delivered,
                   pending, dlq_stream, event_message_map, metrics, cpc, scan,
                   holding, deliveries, ack_returns, xacks, running,
                   failed_event_store, queue, raised, event, organ,
                   handler_failed, handler_error, events_to_enqueue, attempt,
                   last_error, next_id, invoked, returned, enqueue_calls,
                   dispatch_returned, dispatch_enqueued, acked_events,
                   store_calls, pulled, failed_ids, resolved>>

\* backend.pull with a working transport: XREADGROUP blocks for the timeout
\* and returns nothing, pull returns None
RedisPullTimesOut ==
    /\ pc = "pull"
    /\ redis_client' = "open"
    /\ PullReturnedNone
    /\ UNCHANGED <<config, read_failures, handler_outcome, early_stops, conn, backend_obs,
                   store_obs, stream, last_delivered,
                   pending, dlq_stream, event_message_map, metrics, cpc, scan,
                   holding, deliveries, ack_returns, xacks, running,
                   failed_event_store, queue, raised, event, organ,
                   handler_failed, handler_error, events_to_enqueue, attempt,
                   last_error, next_id, faults, invoked, returned,
                   enqueue_calls, dispatch_returned, dispatch_enqueued,
                   acked_events, store_calls, pulled, failed_ids, resolved>>

RedisPullNext ==
    \/ RedisRun
    \/ RunReturns
    \/ RaiseBackendUnavailable
    \/ IssuePull
    \/ \E failure \in TransportFailures : RedisPullFails(failure)
    \/ RedisPullTimesOut
    \/ Stop

RedisPullSpec == Init /\ [][RedisPullNext]_vars

(***************************************************************************)
(* Spine.run on a healthy in-memory backend, with _invoke_handler spelled  *)
(* out (lines 181-206): organ.handle(event) returns a value of any shape,  *)
(* raises, is a coroutine still running when handler_timeout expires, or   *)
(* runs without ever giving control back.                                  *)
(***************************************************************************)
\* an element of a returned list that is not an Event
NotAnEvent == [id |-> 0, event_type |-> "str"]

\* "isinstance(item, Event)"
IsEvent(item) == item.event_type \in EventTypes

\* the events among the items
RECURSIVE EventsOf(_)
EventsOf(items) ==
    IF items = <<>> THEN <<>>
    ELSE (IF IsEvent(Head(items)) THEN <<Head(items)>> ELSE <<>>)
         \o EventsOf(Tail(items))

\* the list a handler builds from kinds (an event type, or "str" for a
\* non-event), its events constructed with the ids from n on
RECURSIVE ItemsFrom(_, _)
ItemsFrom(kinds, n) ==
    IF kinds = <<>> THEN <<>>
    ELSE IF Head(kinds) \in EventTypes
         THEN <<Event(n, Head(kinds))>> \o ItemsFrom(Tail(kinds), n + 1)
         ELSE <<NotAnEvent>> \o ItemsFrom(Tail(kinds), n)

\* the values organ.handle may return: None, one event, a list of events and
\* non-events, or an object of another type (a string, a dict)
Results(n) ==
    {[shape |-> "None", items |-> <<>>], [shape |-> "other", items |-> <<>>]}
    \cup {[shape |-> "Event", items |-> <<Event(n, t)>>] : t \in EventTypes}
    \cup {[shape |-> "list", items |-> ItemsFrom(kinds, n)] :
             kinds \in UNION {[1..k -> EventTypes \cup {"str"}] : k \in 0..MaxEmit}}

\* what one call of organ.handle does
HandlerOutcomes(n) ==
    {[kind |-> "raises", result |-> NoResult],
     [kind |-> "timeout", result |-> NoResult]}
    \cup {[kind |-> "returns", result |-> r] : r \in Results(n)}

\* faulty variant: only the first element of a list is checked
ValidReturnFirstOnly(result) ==
    \/ result.shape \in {"None", "Event"}
    \/ result.shape = "list" /\ (result.items = <<>> \/ IsEvent(result.items[1]))

\* _invoke_handler, lines 190-206: the return type validation
ValidReturn(result) ==
    \/ result.shape \in {"None", "Event"}
    \/ /\ result.shape = "list"
       /\ \A i \in 1..Len(result.items) : IsEvent(result.items[i])

\* the TimeoutError and the TypeError _invoke_handler raises for organ o
HandlerTimeout(o) == "TimeoutError" \o ToString(o)
TypeViolation(o) == "TypeError" \o ToString(o)

\* faulty variant: a handler that times out counts as one that returned None
InvokeHandlerIgnoresTimeout(o, outcome) ==
    CASE outcome.kind = "raises" -> [error |-> HandlerError(o), events |-> <<>>]
      [] outcome.kind = "timeout" -> [error |-> None, events |-> <<>>]
      [] OTHER ->
            IF ValidReturn(outcome.result)
            THEN [error |-> None, events |-> outcome.result.items]
            ELSE [error |-> TypeViolation(o), events |-> <<>>]

\* _invoke_handler(organ, event): the exception that leaves it, or the events
\* it returns
InvokeHandler(o, outcome) ==
    CASE outcome.kind = "raises" -> [error |-> HandlerError(o), events |-> <<>>]
      [] outcome.kind = "timeout" -> [error |-> HandlerTimeout(o), events |-> <<>>]
      [] OTHER ->
            IF ValidReturn(outcome.result)
            THEN [error |-> None, events |-> outcome.result.items]
            ELSE [error |-> TypeViolation(o), events |-> <<>>]

\* "await self._invoke_handler(organ, event)" ends, lines 359-365 and 387-399
HandlerCompletes ==
    /\ pc = "handle"
    /\ \E outcome \in HandlerOutcomes(next_id) :
          LET r == InvokeHandler(organ, outcome)
              made == EventsOf(outcome.result.items)
          IN /\ next_id + Len(made) <= MaxEvents + 1
             /\ next_id' = next_id + Len(made)
             /\ returned' = Ids(made)
             /\ handler_outcome' = outcome
             /\ IF r.error = None
                THEN /\ dispatch_returned' = dispatch_returned \cup
                                                {made[n].id : n \in 1..Len(made)}
                     /\ events_to_enqueue' = EventsToEnqueue(r.events)
                     /\ UNCHANGED <<handler_failed, handler_error, stats, failed_ids>>
                     /\ IF EventsToEnqueue(r.events) = <<>>
                        THEN Proceed(event, organ, handler_failed, handler_error,
                                     failed_event_store, store_calls, invoked)
                        ELSE /\ pc' = "enqueue"
                             /\ UNCHANGED <<organ, invoked, failed_event_store,
                                            store_calls, resolved>>
                ELSE /\ handler_failed' = TRUE
                     /\ handler_error' = r.error
                     /\ stats' = CountHandlerError(stats, organ)
                     /\ failed_ids' = failed_ids \cup {event.id}
                     /\ Proceed(event, organ, TRUE, r.error, failed_event_store,
                                store_calls, invoked)
                     /\ UNCHANGED <<events_to_enqueue, dispatch_returned>>
    /\ enqueue_calls' = <<>>
    /\ UNCHANGED <<config, backend_obs, store_obs, streams, early_stops, running,
                   consecutive_pull_failures, last_backend_error, queue, raised,
                   event, attempt, last_error, faults, dispatch_enqueued,
                   acked_events, pulled, pull_failures, pull_failure_run,
                   last_pull_error>>

\* organ.handle(event), line 183, or the coroutine it returned, runs without
\* returning and without awaiting: the event loop is never given control, no
\* timeout fires and no other coroutine runs
HandlerBlocks ==
    /\ pc = "handle"
    /\ pc' = "blocked"
    /\ UNCHANGED <<config, standalone, spine, queue, raised, event, organ,
                   handler_failed, handler_error, events_to_enqueue, attempt,
                   last_error, next_id, faults, observed>>

InvokeNext ==
    \/ Run
    \/ StartEnqueueOk
    \/ RunReturns
    \/ RaiseMaxSteps
    \/ IssuePull
    \/ PullReturnsNone
    \/ PullReturnsEvent
    \/ HandlerCompletes
    \/ HandlerBlocks
    \/ EnqueueOk
    \/ AckOk
    \/ Stop

\* the backend is healthy: the enqueue-failure policy and the circuit-breaker
\* threshold play no part and are fixed
InvokeInit ==
    /\ Init
    /\ enqueue_failure_mode = "fail"
    /\ max_consecutive_backend_failures = 1

InvokeSpec == InvokeInit /\ [][InvokeNext]_vars

\* every await of run completes (see FairSpec)
InvokeFairSpec == InvokeSpec /\ WF_vars(InvokeNext)

(***************************************************************************)
(* One RedisBackend used by concurrent tasks (redis_backend.py, lines      *)
(* 118-190 and 306-439): the client handle self._redis, the two locks and  *)
(* the keys of the event-id -> message-id map.  A step is the code a task  *)
(* executes between two awaits; the acquisition of a lock is an await.     *)
(* The Redis server may drop any open connection and may refuse a new one. *)
(***************************************************************************)
not_conn == <<spine_idle, failed_event_store, queue, backend_obs, store_obs,
              redis_client, read_failures, stream, last_delivered, pending,
              dlq_stream, event_message_map, metrics, cpc, scan, holding,
              deliveries, ack_returns, xacks>>

Operations == {"pull", "ack", "nack", "close"}

\* "Redis(connection_pool=pool)", line 165
NewConnection == [state |-> "open", alive |-> TRUE, verified |-> FALSE]

\* a command on the connection succeeds: it is open and the server has not
\* dropped it (0 is None: any command on it raises)
Usable(n) ==
    /\ n # 0
    /\ connections[n].alive
    /\ connections[n].state = "open"

\* where a method stands once _get_client has returned the client
AfterClient(op) ==
    CASE op = "pull" -> "xreadgroup"
      [] op = "ack" -> "xack"
      [] op = "nack" -> "move_to_dlq"

\* where a method stands once _get_client has raised: nack reaches it inside
\* its try statement (lines 393-401), pull and ack outside any
AfterRaise(op) == IF op = "nack" THEN "pop_lock" ELSE "idle"

\* the task goes on in its method with the client _get_client returned
WithClient(t, c) ==
    [NoTask EXCEPT !.op = task[t].op, !.ev = task[t].ev,
                   !.pc = AfterClient(task[t].op), !.got = c]

\* the task is at the lock of the map, in _deserialize or in a finally clause
AtMapLock(t, at) ==
    [NoTask EXCEPT !.op = task[t].op, !.ev = task[t].ev, !.pc = at]

\* the assignment of a task to the handle or to the map, with the lock that
\* guards the target held by the task or not
Write(t, target, holder) ==
    [target |-> target, locked |-> holder = t]

\* a task calls pull(), ack(event), nack(event) or close()
CallMethod(t) ==
    /\ task[t].pc = "idle"
    /\ \E op \in Operations :
          CASE op = "pull" ->
                  task' = [task EXCEPT ![t] = [NoTask EXCEPT !.op = op, !.pc = "get"]]
            [] op \in {"ack", "nack"} ->
                  \E ev \in map_keys :
                     task' = [task EXCEPT ![t] =
                                [NoTask EXCEPT !.op = op, !.pc = "get", !.ev = ev]]
            [] op = "close" ->
                  /\ redis # 0
                  /\ task' = [task EXCEPT ![t] =
                                [NoTask EXCEPT !.op = op, !.pc = "aclose",
                                               !.old = redis]]
    /\ UNCHANGED <<not_conn, redis, connected, conn_lock, map_lock, connections,
                   reconnections, map_keys, conn_pulled, writes>>

\* _get_client, lines 130-133: the fast path pings the client in hand
GetClient(t) ==
    /\ task[t].pc = "get"
    /\ task' = [task EXCEPT ![t] =
                  IF redis # 0
                  THEN [@ EXCEPT !.pc = "fast_ping", !.pinged = redis]
                  ELSE [@ EXCEPT !.pc = "lock"]]
    /\ UNCHANGED <<not_conn, redis, connected, conn_lock, map_lock, connections,
                   reconnections, map_keys, conn_pulled, writes>>

\* _get_client, lines 133-137: the ping returns ("return self._redis") or
\* raises
FastPing(t) ==
    /\ task[t].pc = "fast_ping"
    /\ task' = [task EXCEPT ![t] =
                  IF Usable(task[t].pinged) THEN WithClient(t, redis)
                  ELSE [@ EXCEPT !.pc = "lock", !.pinged = 0]]
    /\ UNCHANGED <<not_conn, redis, connected, conn_lock, map_lock, connections,
                   reconnections, map_keys, conn_pulled, writes>>

\* _get_client, lines 158-171: a new client is made and its ping awaited;
\* fresh is 0 when the server refuses the connection
OpenNew(t, conns) ==
    \E reachable \in BOOLEAN :
       IF reachable /\ Len(conns) < MaxConnections
       THEN /\ connections' = Append(conns, NewConnection)
            /\ task' = [task EXCEPT ![t] =
                          [@ EXCEPT !.pc = "new_ping", !.fresh = Len(conns) + 1,
                                    !.is_reconnection = connected,
                                    !.pinged = 0, !.old = 0]]
       ELSE /\ connections' = conns
            /\ task' = [task EXCEPT ![t] =
                          [@ EXCEPT !.pc = "new_ping", !.fresh = 0,
                                    !.is_reconnection = connected,
                                    !.pinged = 0, !.old = 0]]

\* _get_client, lines 140-144 and 151-171: the lock is acquired
AcquireConnLock(t) ==
    /\ task[t].pc = "lock"
    /\ conn_lock = "free"
    /\ conn_lock' = t
    /\ IF redis # 0
       THEN /\ task' = [task EXCEPT ![t] =
                          [@ EXCEPT !.pc = "re_ping", !.pinged = redis]]
            /\ UNCHANGED connections
       ELSE OpenNew(t, connections)
    /\ UNCHANGED <<not_conn, redis, connected, map_lock, reconnections,
                   map_keys, conn_pulled, writes>>

\* _get_client, lines 144-154: the ping under the lock returns or raises
RePing(t) ==
    /\ task[t].pc = "re_ping"
    /\ IF Usable(task[t].pinged)
       THEN /\ task' = [task EXCEPT ![t] = WithClient(t, redis)]
            /\ conn_lock' = "free"
            /\ UNCHANGED connections
       ELSE /\ conn_lock' = conn_lock
            /\ IF redis # 0
               THEN /\ task' = [task EXCEPT ![t] =
                                  [@ EXCEPT !.pc = "close_old", !.old = redis,
                                            !.pinged = 0]]
                    /\ UNCHANGED connections
               ELSE OpenNew(t, connections)
    /\ UNCHANGED <<not_conn, redis, connected, map_lock, reconnections,
                   map_keys, conn_pulled, writes>>

\* _get_client, lines 154-171: the old client is closed
CloseOld(t) ==
    /\ task[t].pc = "close_old"
    /\ OpenNew(t, [connections EXCEPT ![task[t].old].state = "closed"])
    /\ UNCHANGED <<not_conn, redis, connected, conn_lock, map_lock,
                   reconnections, map_keys, conn_pulled, writes>>

\* _get_client, lines 168-190: the ping of the new client returns and the
\* client is committed, or it raises and the new client is closed
NewPing(t) ==
    /\ task[t].pc = "new_ping"
    /\ conn_lock' = "free"
    /\ IF Usable(task[t].fresh)
       THEN /\ redis' = task[t].fresh
            /\ connected' = TRUE
            /\ connections' = [connections EXCEPT ![task[t].fresh].verified = TRUE]
            /\ reconnections' =
                  IF task[t].is_reconnection THEN reconnections + 1
                  ELSE reconnections
            /\ writes' = writes \cup {Write(t, "client", conn_lock)}
            /\ task' = [task EXCEPT ![t] = WithClient(t, task[t].fresh)]
       ELSE /\ connections' =
                  IF task[t].fresh = 0 THEN connections
                  ELSE [connections EXCEPT ![task[t].fresh].state = "closed"]
            /\ task' = [task EXCEPT ![t] =
                          IF AfterRaise(task[t].op) = "idle" THEN NoTask
                          ELSE AtMapLock(t, AfterRaise(task[t].op))]
            /\ UNCHANGED <<redis, connected, reconnections, writes>>
    /\ UNCHANGED <<not_conn, map_lock, map_keys, conn_pulled>>

\* pull, lines 316-340: XREADGROUP returns (a message, or nothing), or it
\* raises and the handle is cleared
XReadGroup(t) ==
    /\ task[t].pc = "xreadgroup"
    /\ IF Usable(task[t].got)
       THEN /\ \E message \in BOOLEAN :
                  task' = [task EXCEPT ![t] =
                             IF message /\ conn_pulled < MaxPulled
                             THEN AtMapLock(t, "store_lock")
                             ELSE NoTask]
            /\ UNCHANGED <<redis, writes>>
       ELSE /\ redis' = 0
            /\ writes' = writes \cup {Write(t, "client", conn_lock)}
            /\ task' = [task EXCEPT ![t] = NoTask]
    /\ UNCHANGED <<not_conn, connected, conn_lock, map_lock, connections,
                   reconnections, map_keys, conn_pulled>>

\* ack, lines 362-369: XACK returns or raises; the finally clause follows
XAckReturns(t) ==
    /\ task[t].pc = "xack"
    /\ task' = [task EXCEPT ![t] = AtMapLock(t, "pop_lock")]
    /\ UNCHANGED <<not_conn, redis, connected, conn_lock, map_lock, connections,
                   reconnections, map_keys, conn_pulled, writes>>

\* nack, lines 393-398: _move_to_dlq returns (it swallows the errors of its
\* commands); the finally clause follows
MoveToDlqReturns(t) ==
    /\ task[t].pc = "move_to_dlq"
    /\ task' = [task EXCEPT ![t] = AtMapLock(t, "pop_lock")]
    /\ UNCHANGED <<not_conn, redis, connected, conn_lock, map_lock, connections,
                   reconnections, map_keys, conn_pulled, writes>>

\* "async with self._map_lock", lines 299, 371 and 400
AcquireMapLock(t) ==
    /\ task[t].pc \in {"store_lock", "pop_lock"}
    /\ map_lock = "free"
    /\ map_lock' = t
    /\ task' = [task EXCEPT ![t] =
                  [@ EXCEPT !.pc = IF @ = "store_lock" THEN "store" ELSE "pop"]]
    /\ UNCHANGED <<not_conn, redis, connected, conn_lock, connections,
                   reconnections, map_keys, conn_pulled, writes>>

\* _deserialize, line 300: the mapping of the pulled event is stored
MapStoreLocked(t) ==
    /\ task[t].pc = "store"
    /\ map_keys' = map_keys \cup {conn_pulled + 1}
    /\ conn_pulled' = conn_pulled + 1
    /\ writes' = writes \cup {Write(t, "map", map_lock)}
    /\ map_lock' = "free"
    /\ task' = [task EXCEPT ![t] = NoTask]
    /\ UNCHANGED <<not_conn, redis, connected, conn_lock, connections,
                   reconnections>>

\* ack and nack, lines 372 and 401: the mapping of the event is popped
MapPopLocked(t) ==
    /\ task[t].pc = "pop"
    /\ map_keys' = map_keys \ {task[t].ev}
    /\ writes' = writes \cup {Write(t, "map", map_lock)}
    /\ map_lock' = "free"
    /\ task' = [task EXCEPT ![t] = NoTask]
    /\ UNCHANGED <<not_conn, redis, connected, conn_lock, connections,
                   reconnections, conn_pulled>>

\* close, lines 436-438: aclose returns and the handle is cleared
Close(t) ==
    /\ task[t].pc = "aclose"
    /\ connections' = [connections EXCEPT ![task[t].old].state = "closed"]
    /\ redis' = 0
    /\ writes' = writes \cup {Write(t, "client", conn_lock)}
    /\ task' = [task EXCEPT ![t] = NoTask]
    /\ UNCHANGED <<not_conn, connected, conn_lock, map_lock, reconnections,
                   map_keys, conn_pulled>>

\* the server, or the network, drops an open connection
Break ==
    /\ \E n \in 1..Len(connections) :
          /\ Usable(n)
          /\ connections' = [connections EXCEPT ![n].alive = FALSE]
    /\ UNCHANGED <<not_conn, redis, connected, conn_lock, map_lock,
                   reconnections, map_keys, conn_pulled, task, writes>>

ConnNext ==
    \/ \E t \in Tasks : CallMethod(t)
    \/ \E t \in Tasks : GetClient(t)
    \/ \E t \in Tasks : FastPing(t)
    \/ \E t \in Tasks : AcquireConnLock(t)
    \/ \E t \in Tasks : RePing(t)
    \/ \E t \in Tasks : CloseOld(t)
    \/ \E t \in Tasks : NewPing(t)
    \/ \E t \in Tasks : XReadGroup(t)
    \/ \E t \in Tasks : XAckReturns(t)
    \/ \E t \in Tasks : MoveToDlqReturns(t)
    \/ \E t \in Tasks : AcquireMapLock(t)
    \/ \E t \in Tasks : MapStoreLocked(t)
    \/ \E t \in Tasks : MapPopLocked(t)
    \/ \E t \in Tasks : Close(t)
    \/ Break

ConnSpec == StreamsInit /\ [][ConnNext]_vars

(***************************************************************************)
(* Helpers of the properties                                               *)
(***************************************************************************)
Range(seq) == {seq[k] : k \in 1..Len(seq)}
Count(seq, x) == Cardinality({k \in 1..Len(seq) : seq[k] = x})
IsPrefix(p, seq) == Len(p) <= Len(seq) /\ \A k \in 1..Len(p) : p[k] = seq[k]
Last(seq) == seq[Len(seq)]
Dispatching == pc \in {"handle", "enqueue", "retry"}

\* calls of backend.ack for the event with this id, the one in flight included
AcksIssued(id) == Count(acked_events, id) + (IF pc = "ack" /\ event.id = id THEN 1 ELSE 0)

(***************************************************************************)
(* C1: backend.ack(event) is issued at most once per pulled event, and     *)
(* only after every organ that listens to the event has been invoked on    *)
(* it and every event those organs returned has been handed to             *)
(* backend.enqueue (where the enqueue-failure policy resolves a failure);  *)
(* no ack is issued before or between the handler invocations.             *)
(***************************************************************************)
AckAfterDispatch ==
    /\ \A id \in Range(pulled) : AcksIssued(id) <= 1
    /\ Range(acked_events) \subseteq resolved
    /\ pc = "ack" =>
          /\ invoked = Matching(event)
          /\ dispatch_returned \subseteq dispatch_enqueued
          /\ events_to_enqueue = <<>>
          /\ event.id \in resolved
    /\ Dispatching => AcksIssued(event.id) = 0 /\ event.id \notin resolved

\* an ack is in flight after two organs ran and one of them emitted
AckAfterDispatchWitness ==
    /\ pc = "ack"
    /\ Len(invoked) = 2
    /\ dispatch_returned # {}

(***************************************************************************)
(* C2: events_processed never exceeds max_steps, no pull is issued once    *)
(* events_processed has reached max_steps, and a run that comes back to    *)
(* the loop head (not stopped) with max_steps events processed ends with   *)
(* "Max steps exceeded", after exactly max_steps events.                   *)
(***************************************************************************)
MaxStepsEnforced ==
    /\ stats.events_processed <= max_steps
    /\ Len(pulled) <= max_steps
    /\ pc = "pull" => stats.events_processed < max_steps
    /\ raised.type = "MaxStepsExceeded" => stats.events_processed = max_steps
    /\ (pc = "done" /\ running /\ stats.events_processed >= max_steps
          /\ raised.type # "EnqueueError")
       => raised.type = "MaxStepsExceeded"

\* the organs kept emitting: the queue still holds events when run is cut
MaxStepsEnforcedWitness ==
    /\ raised.type = "MaxStepsExceeded"
    /\ max_steps = 2
    /\ queue # <<>>

(***************************************************************************)
(* C3: N consecutive pull failures with N >= threshold end the run with    *)
(* BackendUnavailable whose failure_count is N and whose last_error is     *)
(* the error of the last failed pull (a run stopped by stop() during the   *)
(* last failing pull returns instead).  No pull is issued once N has       *)
(* reached the threshold, so N never exceeds it.                           *)
(***************************************************************************)
CircuitBreakerTrips ==
    /\ raised.type = "BackendUnavailableError" =>
          /\ raised.failure_count = pull_failure_run
          /\ pull_failure_run >= max_consecutive_backend_failures
          /\ raised.error = last_pull_error
          /\ last_pull_error # None
    /\ pull_failure_run >= max_consecutive_backend_failures =>
          /\ pc \in {"loop", "done"}
          /\ pc = "done" /\ running => raised.type = "BackendUnavailableError"
          /\ pc = "done" /\ ~running => raised = NoError
    /\ pull_failure_run <= max_consecutive_backend_failures

CircuitBreakerTripsWitness ==
    /\ raised.type = "BackendUnavailableError"
    /\ raised.failure_count = 2
    /\ raised.error = Error(2)

(***************************************************************************)
(* C4: a pull that returns (an event or None) resets the consecutive-      *)
(* failure counter to zero, so the counter is the number of failed pulls   *)
(* since the last successful one and BackendUnavailable is raised only     *)
(* when threshold failures occur in a row; stats.backend_errors counts     *)
(* every failed pull of the run.                                           *)
(***************************************************************************)
SuccessfulPullResets ==
    /\ consecutive_pull_failures = pull_failure_run
    /\ stats.backend_errors = pull_failures
    /\ (pc \in {"handle", "enqueue", "retry", "ack"}) => consecutive_pull_failures = 0
    /\ raised.type = "BackendUnavailableError" =>
          pull_failure_run >= max_consecutive_backend_failures

\* threshold failures in total, but a successful pull between them: no trip
SuccessfulPullResetsWitness ==
    /\ max_consecutive_backend_failures = 2
    /\ stats.backend_errors = 2
    /\ consecutive_pull_failures = 1
    /\ pc = "pull"

InStore(id) == Cardinality({k \in 1..Len(failed_event_store.events) :
                              failed_event_store.events[k][1].id = id})

NackModeWithholdsAck ==
    handler_failure_mode = "nack" =>
       /\ \A id \in failed_ids : AcksIssued(id) = 0
       /\ \A id \in resolved \ failed_ids : AcksIssued(id) = 1

NackModeWithholdsAckWitness ==
    /\ handler_failure_mode = "nack"
    /\ pc = "loop"
    /\ \E a \in failed_ids \cap resolved : \E b \in resolved \ failed_ids :
          Count(acked_events, b) = 1 /\ a < b

(***************************************************************************)
(* C7: on a pulled event the dispatcher invokes exactly the organs whose   *)
(* listens_to contains its event_type, each once, one at a time and in     *)
(* registration order: the organs invoked so far are always a prefix of    *)
(* the matching organs, and all of them once the dispatch is complete.     *)
(***************************************************************************)
RoutesToMatchingOrgans ==
    /\ event # NoEvent => IsPrefix(invoked, Matching(event))
    /\ event.id \in resolved => invoked = Matching(event)
    /\ pc = "handle" => invoked # <<>> /\ organ = Last(invoked)
    /\ pc \in {"enqueue", "retry"} => invoked # <<>> /\ organ = Last(invoked)

\* the first organ does not listen and is skipped, the second one is invoked
RoutesToMatchingOrgansWitness ==
    /\ event.id \in resolved
    /\ invoked = <<2>>
    /\ organs[1] # {}

RECURSIVE Collapse(_)
Collapse(seq) ==
    IF Len(seq) <= 1 THEN seq
    ELSE IF seq[1] = seq[2] THEN Collapse(Tail(seq))
    ELSE <<seq[1]>> \o Collapse(Tail(seq))

HandlerErrorStep ==
    (pc = "handle" /\ handler_error' # handler_error) =>
       /\ stats'.handler_errors[organ] = stats.handler_errors[organ] + 1
       /\ \A o \in DOMAIN organs \ {organ} :
             stats'.handler_errors[o] = stats.handler_errors[o]
       /\ raised' = NoError
       /\ LET rest == {j \in (organ + 1)..Len(organs) : event.event_type \in organs[j]}
          IN IF rest = {}
             THEN pc' \in {"ack", "loop"} /\ event.id \in resolved'
             ELSE /\ pc' = "handle"
                  /\ event' = event
                  /\ organ' \in rest
                  /\ \A j \in rest : organ' <= j

(***************************************************************************)
(* C9: when an organ raises while handling an event, run does not          *)
(* terminate: handler_errors of that organ goes up by one, the next        *)
(* matching organ is invoked on the same event (the acknowledgment is      *)
(* resolved when there is none), and all matching organs have been         *)
(* invoked when the dispatch of a failed event completes.                  *)
(***************************************************************************)
HandlerErrorRecovered ==
    /\ [](event.id \in resolved /\ handler_failed => invoked = Matching(event))
    /\ [](handler_failed /\ raised.type # "EnqueueError" => pc # "done" \/ event.id \in resolved)
    /\ [][HandlerErrorStep]_vars

\* the first organ raised on the first event; a second event is dispatched
HandlerErrorRecoveredWitness ==
    /\ pc = "handle"
    /\ Len(pulled) = 2
    /\ pulled[1] \in failed_ids
    /\ stats.handler_errors[1] = 1

TotalEnqueueFailures == stats.enqueue_failures["A"] + stats.enqueue_failures["B"]

(***************************************************************************)
(* C10: under enqueue_failure_mode = FAIL the first failure of             *)
(* backend.enqueue on an emitted event ends run with EnqueueError          *)
(* wrapping that error; the remaining emitted events are not enqueued and  *)
(* no further organ is invoked.                                            *)
(***************************************************************************)
FailModeTerminates ==
    enqueue_failure_mode = "fail" =>
       /\ TotalEnqueueFailures > 0 =>
             /\ pc = "done"
             /\ raised.type = "EnqueueError"
             /\ TotalEnqueueFailures = 1
       /\ raised.type = "EnqueueError" =>
             /\ raised.error = Error(faults)
             /\ events_to_enqueue # <<>>
             /\ Last(enqueue_calls) = Head(events_to_enqueue).id
             /\ \A k \in 1..Len(events_to_enqueue) :
                   /\ events_to_enqueue[k].id \notin Range(Ids(queue))
                   /\ k > 1 => events_to_enqueue[k].id \notin dispatch_enqueued
             /\ organ = Last(invoked)
             /\ event.id \notin resolved

\* the first of two emitted events was refused while a later organ was waiting
FailModeTerminatesWitness ==
    /\ enqueue_failure_mode = "fail"
    /\ raised.type = "EnqueueError"
    /\ Len(events_to_enqueue) = 2
    /\ NextOrgan(organ, event) <= Len(organs)

\* ids handed to backend.enqueue whose outcome is a refusal not yet made good:
\* the event the retry loop is busy with, or the one EnqueueError was raised for
Refused(id) ==
    /\ events_to_enqueue # <<>>
    /\ id = Head(events_to_enqueue).id
    /\ pc = "retry" \/ raised.type = "EnqueueError"

Accepted(id) == id \in Range(Ids(queue)) \cup Range(pulled)

(***************************************************************************)
(* C11: under enqueue_failure_mode = RETRY a refused emitted event is      *)
(* handed to backend.enqueue again at most retry_attempts times; the       *)
(* first attempt that succeeds ends the retries (the event is in the       *)
(* queue once, dispatch goes on and run does not fail), and run ends with  *)
(* EnqueueError, wrapping the last error, only when the first call and     *)
(* all retry_attempts retries have failed.                                 *)
(***************************************************************************)
RetryModeRetries ==
    enqueue_failure_mode = "retry" =>
       /\ \A id \in Range(enqueue_calls) :
             /\ Count(enqueue_calls, id) <= 1 + retry_attempts
             /\ Refused(id) \/ Accepted(id)
             /\ Accepted(id) => Count(Ids(queue) \o pulled, id) = 1
       /\ pc = "retry" =>
             /\ attempt < retry_attempts
             /\ events_to_enqueue # <<>>
             /\ Count(enqueue_calls, Head(events_to_enqueue).id) = 1 + attempt
             /\ ~Accepted(Head(events_to_enqueue).id)
       /\ raised.type = "EnqueueError" =>
             /\ pc = "done"
             /\ Count(enqueue_calls, Head(events_to_enqueue).id) = 1 + retry_attempts
             /\ ~Accepted(Head(events_to_enqueue).id)
             /\ raised.error = Error(faults)
       /\ pc = "done" /\ TotalEnqueueFailures > 0 /\ raised.type # "EnqueueError"
             => \A id \in dispatch_enqueued : Accepted(id)

\* a retry made good a refusal and the dispatch went on
RetryModeRetriesWitness ==
    /\ enqueue_failure_mode = "retry"
    /\ pc \in {"handle", "ack"}
    /\ \E id \in Range(enqueue_calls) :
          Count(enqueue_calls, id) = 2 /\ id \in Range(Ids(queue))

StoreModeEnqueueFailureStep ==
    (enqueue_failure_mode = "store" /\ pc = "enqueue" /\ faults' # faults) =>
       /\ \E k \in 1..Len(failed_event_store'.events) :
             failed_event_store'.events[k] =
                <<Head(events_to_enqueue), Error(faults')>>
       /\ store_calls' # store_calls
       /\ raised' = NoError
       /\ pc' # "done"
       /\ events_to_enqueue' = Tail(events_to_enqueue)
       /\ Tail(events_to_enqueue) # <<>> => pc' = "enqueue" /\ organ' = organ
       /\ Tail(events_to_enqueue) = <<>> /\ NextOrgan(organ, event) <= Len(organs)
             => pc' = "handle" /\ organ' = NextOrgan(organ, event)

(***************************************************************************)
(* C12: under enqueue_failure_mode = STORE a refused emitted event is      *)
(* recorded with its error in the failed-event store and the dispatch      *)
(* goes on: the remaining events of the same return are handed to          *)
(* backend.enqueue in order, the later organs run, the acknowledgment of   *)
(* the triggering event is resolved as usual and run never ends with       *)
(* EnqueueError.                                                           *)
(***************************************************************************)
StoreModeContinues ==
    /\ [][StoreModeEnqueueFailureStep]_vars
    /\ [](enqueue_failure_mode = "store" =>
            /\ raised.type # "EnqueueError"
            /\ TotalEnqueueFailures =
                  Cardinality({k \in 1..Len(store_calls) :
                                  store_calls[k] \notin Range(pulled)})
            /\ IsPrefix(enqueue_calls, returned)
            /\ \A id \in Range(enqueue_calls) :
                  Accepted(id) \/ id \in Range(store_calls)
            /\ event.id \in resolved =>
                  /\ invoked = Matching(event)
                  /\ enqueue_calls = returned
                  /\ dispatch_returned = dispatch_enqueued
                  /\ ~(handler_failed /\ handler_failure_mode = "nack")
                        => AcksIssued(event.id) = 1)

\* the first organ returned two events, the first was refused and stored, the
\* second is in the queue, the second organ has run and the ack is in flight
StoreModeContinuesWitness ==
    /\ enqueue_failure_mode = "store"
    /\ pc = "ack"
    /\ Len(invoked) = 2
    /\ returned = <<>>
    /\ \E id \in dispatch_returned :
          /\ id \in Range(store_calls)
          /\ id + 1 \in Range(Ids(queue))

StopStep ==
    (running /\ ~running') =>
       UNCHANGED <<config, standalone, stats, consecutive_pull_failures, last_backend_error,
                   failed_event_store, queue, coroutine, next_id, faults, observed>>

StoppedDispatchStep ==
    (~running /\ pc \in {"handle", "enqueue", "retry", "ack"}) =>
       pc' # "done" \/ raised'.type = "EnqueueError"

(***************************************************************************)
(* C13: stop() only clears the running flag.  A dispatch in progress is    *)
(* not cut short: run does not return from within it, and when run has     *)
(* returned every pulled event has had all its matching organs invoked,    *)
(* the events they returned handed to backend.enqueue and its              *)
(* acknowledgment resolved.                                                *)
(***************************************************************************)
StopIsCooperative ==
    /\ [][StopStep]_vars
    /\ [][StoppedDispatchStep]_vars
    /\ [](pc = "done" /\ raised = NoError =>
            /\ ~running
            /\ Range(pulled) \subseteq resolved
            /\ events_to_enqueue = <<>>
            /\ event # NoEvent =>
                  /\ invoked = Matching(event)
                  /\ dispatch_returned \subseteq dispatch_enqueued
                  /\ ~(handler_failed /\ handler_failure_mode = "nack")
                        => event.id \in Range(acked_events))

\* stop() has been called while the first of two matching organs is at work
StopIsCooperativeWitness ==
    /\ ~running
    /\ pc \in {"handle", "enqueue"}
    /\ organ = 1
    /\ NextOrgan(1, event) = 2

StoppedLoopStep ==
    /\ (~running /\ pc \notin {"init", "pull"}) => pc' # "pull"
    /\ (~running /\ pc = "loop") => pc' = "done" /\ raised' = NoError
    /\ pulled' # pulled => pc = "pull" /\ pc' # "pull" /\ Len(pulled') = Len(pulled) + 1

(***************************************************************************)
(* C14: once stop() has been called run issues no new pull: it dispatches  *)
(* at most the event in progress, or the one returned by the pull that     *)
(* was in flight, the next time it reaches the loop head it returns, and   *)
(* it does reach the loop head (every await of run completing).            *)
(***************************************************************************)
StopEndsRun ==
    /\ [][StoppedLoopStep]_vars
    /\ [](~running /\ pc = "pull" => event = NoEvent \/ event.id \in resolved)
    /\ (~running /\ pc # "init") ~> (pc = "done")

\* run has returned although the queue still holds events
StopEndsRunWitness ==
    /\ pc = "done"
    /\ raised = NoError
    /\ ~running
    /\ queue # <<>>
    /\ pulled # <<>>

AckFailureStep ==
    /\ (pc = "ack" /\ faults' # faults) =>
          /\ stats' = [stats EXCEPT !.ack_errors = @ + 1]
          /\ consecutive_pull_failures' = consecutive_pull_failures
          /\ last_backend_error' = last_backend_error
          /\ raised' = NoError
          /\ pc' = "loop"
    /\ stats'.ack_errors # stats.ack_errors => pc = "ack" /\ faults' # faults

(***************************************************************************)
(* C15: a backend.ack that raises, after a successful dispatch or after a  *)
(* handler failure in LOG or STORE mode, adds one to stats.ack_errors and  *)
(* nothing else: run goes back to the loop head, and the consecutive-      *)
(* pull-failure counter and backend_errors are left as they were.          *)
(***************************************************************************)
AckFailureCounted ==
    /\ [][AckFailureStep]_vars
    /\ [](stats.ack_errors <= Len(acked_events))
    /\ [](pc = "ack" /\ handler_failed => handler_failure_mode \in {"log", "store"})

\* the ack of an event whose handler failed in STORE mode raised; run pulls again
AckFailureCountedWitness ==
    /\ stats.ack_errors = 1
    /\ handler_failed
    /\ handler_failure_mode = "store"
    /\ pc = "pull"

\* ids of the events that the first k calls have put in the queue, in order
AcceptedBy(k) ==
    LET calls == SelectSeq(SubSeq(history, 1, k),
                           LAMBDA c : c.op = "enqueue" /\ c.raised = None)
    IN [n \in 1..Len(calls) |-> calls[n].event]

\* ids of the events that the pulls among the first k calls have returned
ReturnedBy(k) ==
    LET calls == SelectSeq(SubSeq(history, 1, k),
                           LAMBDA c : c.op = "pull" /\ c.event # 0)
    IN [n \in 1..Len(calls) |-> calls[n].event]

(***************************************************************************)
(* C16: whatever the interleaving of enqueue and pull calls on the         *)
(* in-memory backend, every pull returns the oldest accepted event that    *)
(* no pull has returned yet, and None exactly when there is none: events   *)
(* come out in enqueue order, each once.                                   *)
(***************************************************************************)
FifoOrder ==
    /\ \A k \in 1..Len(history) :
          history[k].op = "pull" =>
             LET a == AcceptedBy(k - 1)
                 r == ReturnedBy(k - 1)
             IN history[k].event = IF Len(r) < Len(a) THEN a[Len(r) + 1] ELSE 0
    /\ LET a == AcceptedBy(Len(history))
           r == ReturnedBy(Len(history))
       IN /\ IsPrefix(r, a)
          /\ Ids(queue) = SubSeq(a, Len(r) + 1, Len(a))

\* 2 then 1 were enqueued; three pulls returned 2, 1 and None
FifoOrderWitness ==
    /\ Len(history) = 5
    /\ [k \in 1..5 |-> history[k].op] = <<"enqueue", "enqueue", "pull", "pull", "pull">>
    /\ [k \in 1..5 |-> history[k].event] = <<2, 1, 2, 1, 0>>

BackendEnqueueStep ==
    (Len(history') = Len(history) + 1 /\ Last(history').op = "enqueue") =>
       IF maxsize > 0 /\ Len(queue) >= maxsize
       THEN /\ Last(history').raised = "BackendFullError"
            /\ queue' = queue
       ELSE /\ Last(history').raised = None
            /\ queue' = Append(queue, Event(Last(history').event, "A"))

(***************************************************************************)
(* C17: a backend built with max_size > 0 never holds more than max_size   *)
(* events; an enqueue on a queue that holds max_size events raises         *)
(* BackendFullError at once and leaves the queue as it was, any other      *)
(* enqueue appends the event; with max_size = 0 no enqueue raises.         *)
(***************************************************************************)
BoundedQueue ==
    /\ [](maxsize > 0 => Len(queue) <= maxsize)
    /\ [](maxsize = 0 => \A k \in 1..Len(history) : history[k].raised = None)
    /\ [][BackendEnqueueStep]_vars

\* a queue of max_size 2 is full and has just refused an event
BoundedQueueWitness ==
    /\ maxsize = 2
    /\ Len(queue) = 2
    /\ history # <<>>
    /\ Last(history).raised = "BackendFullError"

(***************************************************************************)
(* C18: after n store calls on a failed-event store of any max_size        *)
(* (no clear), the store holds at most max_size pairs, they are the last   *)
(* min(n, max_size) pairs passed to store, in that order, and              *)
(* dropped_count is max(0, n - max_size).                                  *)
(***************************************************************************)
StoreKeepsLast ==
    LET n == Len(store_args)
        m == failed_event_store.max_size
    IN /\ Len(failed_event_store.events) <= m
       /\ failed_event_store.events = SubSeq(store_args, n - Min(n, m) + 1, n)
       /\ failed_event_store.dropped_count = Max(0, n - m)

PendingIds == {e.msg : e \in pending}

AckRemovesFromPending ==
    /\ \A a \in ack_returns : a.msg \notin PendingIds
    /\ \A x \in xacks : x.msg \notin PendingIds
    /\ \A m \in 1..last_delivered :
          m \in PendingIds \/ \E x \in xacks : x.msg = m
    /\ PendingIds \subseteq 1..last_delivered

\* one event has been acked; another was pulled, its consumer has let go of it
\* without a successful ack, and it is still pending after claim_min_idle_ms
AckRemovesFromPendingWitness ==
    /\ ack_returns # {}
    /\ \E e \in pending :
          /\ e.idle >= ClaimMinIdle
          /\ holding[e.consumer] = NoDelivery
          /\ cpc[e.consumer] = "idle"

\* consumer c examines an entry of its XPENDING reply that names a message
\* which is pending, un-acked, idle for claim_min_idle_ms or more and
\* delivered fewer than max_retries times
RecoveryStep(c) ==
    /\ cpc[c] = "recover"
    /\ scan[c] # <<>>
    /\ scan'[c] # scan[c]
    /\ IdleEnough(Head(scan[c]).time_since_delivered)
    /\ ~RetriesSpent(Head(scan[c]).times_delivered)
    /\ \E e \in pending : e.msg = Head(scan[c]).message_id /\ e.idle >= ClaimMinIdle

DeadLetterStep(c) ==
    /\ cpc[c] = "recover"
    /\ scan[c] # <<>>
    /\ scan'[c] # scan[c]
    /\ Head(scan[c]).time_since_delivered >= ClaimMinIdle
    /\ Head(scan[c]).times_delivered >= MaxRetries

DeadLettered(m) == \E k \in 1..Len(dlq_stream) : dlq_stream[k].original_id = m
Delivered(m) == \E d \in deliveries : d.msg = m

AnswerStep(c) ==
    /\ holding[c] # NoDelivery
    /\ holding'[c] = NoDelivery

(***************************************************************************)
(* C24: nack(event, reason) on a pulled event appends to the DLQ stream an *)
(* entry with the id of the message, its event, the reason and failed_at,  *)
(* then XACKs the message out of the pending set; the message leaves the   *)
(* pending set only with its entry written.  Whether or not the move to    *)
(* the DLQ stream succeeds, the mapping of the event is cleared when nack  *)
(* returns.                                                                *)
(***************************************************************************)
NackRoutesToDlq ==
    [][AnswerStep(OnlyConsumer) =>
          LET c == OnlyConsumer
              msg == holding[c].msg
              entry == [original_id |-> msg, event |-> holding[c].event,
                        reason |-> "Processing failed", failed_at |-> "now"]
          IN /\ MapGet(event_message_map[c], holding[c].event) = {msg}
             /\ MapGet(event_message_map'[c], holding[c].event) = {}
             /\ \/ dlq_stream' = Append(dlq_stream, entry)
                \/ dlq_stream' = dlq_stream /\ pending' = pending
             /\ msg \in PendingIds
             /\ msg \notin PendingIds' <=>
                   /\ dlq_stream' = Append(dlq_stream, entry)
                   /\ xacks' = xacks \cup {[msg |-> msg, by |-> "nack"]}
                   /\ metrics'[c].events_failed = metrics[c].events_failed + 1
             /\ \A e \in pending' : e.msg # msg => e \in pending]_vars

\* a nack has moved a pulled event to the DLQ stream: its entry is the last
\* one, the message is not pending and the backend holds no mapping for it
NackRoutesToDlqWitness ==
    /\ dlq_stream # <<>>
    /\ Last(dlq_stream).reason = "Processing failed"
    /\ [msg |-> Last(dlq_stream).original_id, by |-> "nack"] \in xacks
    /\ Last(dlq_stream).original_id \notin PendingIds
    /\ event_message_map[OnlyConsumer] = {}
    /\ holding[OnlyConsumer] = NoDelivery

(***************************************************************************)
(* C25 as stated: every pull of the streams backend that meets a transport *)
(* error (no connection, or a failing stream read) is a failed pull for    *)
(* run: it is counted in stats.backend_errors, and the consecutive-failure *)
(* counter holds the number of such pulls since the last pull that met     *)
(* none, so that the circuit breaker opens after                           *)
(* max_consecutive_backend_failures of them.                               *)
(***************************************************************************)
TransportErrorsCounted ==
    /\ stats.backend_errors = faults
    /\ pull_failures = faults
    /\ redis_client = "cleared" => consecutive_pull_failures > 0

(***************************************************************************)
(* C25, amended: a pull that cannot obtain a connection raises, and run    *)
(* counts it in stats.backend_errors and in the consecutive-failure        *)
(* counter and keeps its message; a pull whose XREADGROUP fails returns    *)
(* None with the client handle cleared, and run takes it for an empty      *)
(* poll: nothing is counted and the consecutive-failure counter is reset.  *)
(* The circuit breaker opens on max_consecutive_backend_failures           *)
(* consecutive pulls of the first kind.                                    *)
(***************************************************************************)
ConnectionErrorsCounted ==
    /\ [](/\ stats.backend_errors = faults - read_failures
          /\ pull_failures = faults - read_failures
          /\ consecutive_pull_failures = pull_failure_run
          /\ raised.type = "BackendUnavailableError" =>
                /\ pull_failure_run = max_consecutive_backend_failures
                /\ raised.failure_count = pull_failure_run
                /\ raised.error = last_pull_error)
    /\ [][/\ read_failures' = read_failures + 1 =>
                /\ consecutive_pull_failures' = 0
                /\ last_backend_error' = None
                /\ stats' = stats
                /\ redis_client' = "cleared"
                /\ pc' = "loop"
          /\ faults' = faults + 1 /\ read_failures' = read_failures =>
                /\ consecutive_pull_failures' = consecutive_pull_failures + 1
                /\ stats'.backend_errors = stats.backend_errors + 1
                /\ last_backend_error' = Error(faults')
                /\ redis_client' = redis_client
                /\ pc' = "loop"]_vars

\* an XREADGROUP has failed unnoticed, the connection could not be
\* re-established afterwards, and the circuit breaker has opened
ConnectionErrorsCountedWitness ==
    /\ read_failures = 1
    /\ redis_client = "cleared"
    /\ stats.backend_errors = 1
    /\ raised.type = "BackendUnavailableError"

(***************************************************************************)
(* C26 as stated: every handler invocation ends within handler_timeout,    *)
(* by its return, its exception or the timeout, and the dispatcher goes    *)
(* on: run does not stay in one invocation for ever.                       *)
(***************************************************************************)
HandlersBounded ==
    (pc \in {"handle", "blocked"}) ~> (pc \notin {"handle", "blocked"})

\* the step in which the invocation of the current organ ends with the timeout
TimeoutStep ==
    /\ pc = "handle"
    /\ pc' # "blocked"
    /\ pc' # pc \/ organ' # organ
    /\ handler_outcome'.kind = "timeout"

(***************************************************************************)
(* C26, amended: a handler whose coroutine is still running when           *)
(* handler_timeout expires is treated as a handler failure of that organ:  *)
(* handler_errors of the organ grows by one, nothing is enqueued for it,   *)
(* the dispatcher goes on to the next organ that listens to the event and, *)
(* after the last one, resolves the event by handler_failure_mode (stored  *)
(* with the TimeoutError in STORE mode, acked unless the mode is NACK).    *)
(* An invocation that is awaited never holds the dispatcher for ever; one  *)
(* that does not give control back is not interrupted.                     *)
(***************************************************************************)
TimeoutIsHandlerFailure ==
    /\ [][TimeoutStep =>
             /\ handler_failed'
             /\ handler_error' = HandlerTimeout(organ)
             /\ stats'.handler_errors[organ] = stats.handler_errors[organ] + 1
             /\ stats'.events_emitted = stats.events_emitted
             /\ queue' = queue
             /\ event.id \in failed_ids'
             /\ LET later == {j \in (organ + 1)..Len(organs) :
                                 event.event_type \in organs[j]}
                IN IF later # {}
                   THEN /\ pc' = "handle"
                        /\ organ' = CHOOSE j \in later : \A k \in later : j <= k
                        /\ failed_event_store' = failed_event_store
                   ELSE /\ pc' = IF handler_failure_mode = "nack"
                                 THEN "loop" ELSE "ack"
                        /\ IF handler_failure_mode = "store"
                           THEN /\ failed_event_store'.events # <<>>
                                /\ Last(failed_event_store'.events) =
                                      <<event, HandlerTimeout(organ)>>
                           ELSE failed_event_store' = failed_event_store]_vars
    /\ (pc = "handle") ~> (pc # "handle")

\* the first organ timed out, the second one was invoked nevertheless and
\* returned, and the event has been stored with the TimeoutError
TimeoutIsHandlerFailureWitness ==
    /\ handler_failure_mode = "store"
    /\ handler_error = HandlerTimeout(1)
    /\ invoked = <<1, 2>>
    /\ handler_outcome.kind = "returns"
    /\ stats.handler_errors[1] = 1
    /\ stats.handler_errors[2] = 0
    /\ failed_event_store.events # <<>>
    /\ Last(failed_event_store.events)[2] = HandlerTimeout(1)
    /\ pc = "ack"

\* the value the handler returned last is none of: None, one event, a list
\* whose every element is an event
InvalidReturn ==
    /\ handler_outcome.kind = "returns"
    /\ \/ handler_outcome.result.shape = "other"
       \/ /\ handler_outcome.result.shape = "list"
          /\ \E i \in 1..Len(handler_outcome.result.items) :
                handler_outcome.result.items[i] = NotAnEvent

OriginalFailure ==
    Error(faults + 1 - Count(enqueue_calls, Head(events_to_enqueue).id))

EnqueueAttemptFails == pc \in {"enqueue", "retry"} /\ faults' = faults + 1

\* the step counts one enqueue failure of the type of the event being enqueued
CountsEnqueueFailure ==
    stats'.enqueue_failures =
       [stats.enqueue_failures EXCEPT ![Head(events_to_enqueue).event_type] = @ + 1]

\* C29 as stated: every failed call of backend.enqueue for an emitted event,
\* retries included, counts one enqueue failure of the type of the event
EveryEnqueueFailureCounted ==
    [][EnqueueAttemptFails => CountsEnqueueFailure]_vars

(***************************************************************************)
(* C29: in each of the modes FAIL, RETRY and STORE the failure of the      *)
(* first backend.enqueue made for an emitted event counts one enqueue      *)
(* failure of the type of that event, in FAIL mode in the step that        *)
(* raises EnqueueError; a failed retry counts nothing, and nothing else    *)
(* changes the counters during a run.                                      *)
(***************************************************************************)
FirstEnqueueFailureCounted ==
    /\ [][EnqueueAttemptFails /\ pc = "enqueue" =>
             /\ CountsEnqueueFailure
             /\ enqueue_failure_mode = "fail" =>
                   /\ raised'.type = "EnqueueError"
                   /\ stats'.enqueue_failures[Head(events_to_enqueue).event_type] >= 1
             /\ enqueue_failure_mode = "store" => store_calls' # store_calls]_vars
    /\ [][EnqueueAttemptFails /\ pc = "retry" =>
             stats'.enqueue_failures = stats.enqueue_failures]_vars
    /\ [][stats'.enqueue_failures # stats.enqueue_failures =>
             \/ pc = "init"
             \/ EnqueueAttemptFails /\ pc = "enqueue"]_vars
    /\ [](raised.type = "EnqueueError" =>
             stats.enqueue_failures[Head(events_to_enqueue).event_type] >= 1)

\* RETRY mode: the first call and the one retry for an emitted event have
\* failed, one enqueue failure of its type is counted
FirstEnqueueFailureCountedWitness ==
    /\ enqueue_failure_mode = "retry"
    /\ retry_attempts = 1
    /\ raised.type = "EnqueueError"
    /\ Count(enqueue_calls, Head(events_to_enqueue).id) = 2
    /\ stats.enqueue_failures[Head(events_to_enqueue).event_type] = 1
    /\ TotalEnqueueFailures = 1


\* the emitted events the backend has accepted from the spine: the events
\* that are or were in the queue, but for the start event, which run
\* constructs first
StartId == 1
EmittedAccepted == (Range(Ids(queue)) \cup Range(pulled)) \ {StartId}

(***************************************************************************)
(* C30: at every point of a run, in every enqueue failure mode,            *)
(* stats.events_emitted is the number of emitted events that the backend   *)
(* has accepted from the spine, the start event not counted.               *)
(***************************************************************************)
EmittedCountsAccepted == stats.events_emitted = Cardinality(EmittedAccepted)

\* the count is exact where no retry is made, and under RETRY it misses
\* the events that a retry has made good: the refused events that are
\* neither being retried nor the cause of the EnqueueError
EmittedCountMissesRetried ==
    /\ (enqueue_failure_mode # "retry" \/ retry_attempts = 0)
          => EmittedCountsAccepted
    /\ enqueue_failure_mode = "retry" =>
          stats.events_emitted + TotalEnqueueFailures =
             Cardinality(EmittedAccepted)
                + (IF pc = "retry" \/ raised.type = "EnqueueError" THEN 1 ELSE 0)


\* ack(event) of the only consumer ends, for an event it pulled
AckOfPulled ==
    /\ holding[OnlyConsumer] # NoDelivery
    /\ holding'[OnlyConsumer] = NoDelivery

\* ack(event) of the only consumer returns, for an event without a mapping
AckOfUnmapped ==
    \E ev \in 1..Len(stream) :
       /\ [event |-> ev, msg |-> 0] \in ack_returns' \ ack_returns
       /\ MapGet(event_message_map[OnlyConsumer], ev) = {}

(***************************************************************************)
(* C31: ack(event) for an event that has a mapping always removes the      *)
(* mapping, whether the acknowledgment succeeds or fails (the XACK or the  *)
(* connection); ack(event) for an event without a mapping changes nothing  *)
(* and issues no XACK.                                                     *)
(***************************************************************************)
AckAlwaysUnmaps ==
    /\ [][AckOfPulled =>
             MapGet(event_message_map'[OnlyConsumer],
                    holding[OnlyConsumer].event) = {}]_vars
    /\ [][AckOfUnmapped =>
             /\ xacks' = xacks
             /\ pending' = pending
             /\ event_message_map' = event_message_map
             /\ metrics' = metrics]_vars

\* once the client is obtained the mapping is removed: the message has left
\* the pending set, or it stays pending without a mapping (the XACK failed)
AckUnmapsAfterXack ==
    [][AckOfPulled /\ (pending' # pending \/ event_message_map' # event_message_map)
          => MapGet(event_message_map'[OnlyConsumer],
                    holding[OnlyConsumer].event) = {}]_vars


(***************************************************************************)
(* C32: every assignment to the client handle and every mutation of the    *)
(* event-id -> message-id map is made by a task that holds the lock        *)
(* guarding it, under any interleaving of pull, ack, nack and close.       *)
(***************************************************************************)
MutationsUnderLock == \A w \in writes : w.locked

\* what holds of it: the map is mutated under its lock only, and the handle
\* is assigned under its lock whenever _get_client commits a client (the
\* assignments of None are the ones made without it)
MapMutationsUnderLock ==
    /\ [](\A w \in writes : w.target = "map" => w.locked)
    /\ [][redis' # redis /\ redis' # 0 => conn_lock # "free"]_vars
    /\ [][map_keys' # map_keys => map_lock # "free"]_vars


\* the connections that were committed and can be used no more: dropped by
\* the server, or closed
Stale == {n \in 1..Len(connections) :
            /\ connections[n].verified
            /\ ~connections[n].alive \/ connections[n].state = "closed"}

\* the connections that were committed, are the handle no more and were not
\* closed
Leaked == {n \in 1..Len(connections) :
             /\ connections[n].verified
             /\ n # redis
             /\ connections[n].state = "open"}

(***************************************************************************)
(* C33: a stale connection is replaced under the lock: the old connection  *)
(* is closed, one new connection is opened, verified and committed, and    *)
(* the reconnection counter rises by one, however many tasks detect the    *)
(* stale connection; no verified connection is discarded without being     *)
(* closed.                                                                 *)
(***************************************************************************)
ReconnectsOnce ==
    /\ [](Leaked = {})
    /\ [](reconnections <= Cardinality(Stale))
    /\ [][redis' # redis /\ redis' # 0 => conn_lock # "free"]_vars

\* a connection that works is never discarded
NoUsableLeaked == \A n \in Leaked : ~Usable(n)

\* two reconnections never follow one stale connection
ReconnectionsBounded == reconnections <= Cardinality(Stale)

\* what holds of _get_client: a client is committed under the lock, after
\* its ping, with the client it replaces closed, and the counter rises by
\* one when the backend had been connected before
ReconnectionCommit ==
    [][redis' # redis /\ redis' # 0 =>
          /\ conn_lock # "free"
          /\ Usable(redis')
          /\ connections'[redis'].verified
          /\ redis # 0 => connections[redis].state = "closed"
          /\ reconnections' = reconnections + (IF connected THEN 1 ELSE 0)
          /\ connected']_vars

\* an entry of the group's pending list that has been idle for
\* claim_min_idle_ms or more and was delivered fewer than max_retries times
Recoverable(e) ==
    /\ e.idle >= ClaimMinIdle
    /\ e.times_delivered < MaxRetries

\* the pending entries with a lower message id than e
PendingBefore(e) == {x \in pending : x.msg < e.msg}

\* the precondition of the next claim as it was stated, on a group with a
\* long pending list while no time passes: the backend issues XREADGROUP
\* only when the group has no pending message that is idle long enough and
\* below max_retries
PendingAlwaysFirst ==
    \A c \in Consumers :
       cpc[c] = "read" => \A e \in pending : ~Recoverable(e)

(***************************************************************************)
(* C34: pull looks at the pending list first, through the first            *)
(* XPendingCount entries of it in the order of their message ids.  Every   *)
(* entry of that reply is examined in order; one that is idle for          *)
(* claim_min_idle_ms or more, below max_retries and still claimable is     *)
(* claimed and returned, and no new message is delivered by that pull.     *)
(* XREADGROUP is issued only after the whole reply was examined and        *)
(* nothing was claimed.                                                    *)
(***************************************************************************)
PendingWindowFirst ==
    /\ [][\A c \in Consumers :
            cpc[c] = "idle" /\ cpc'[c] # "idle" =>
               /\ cpc'[c] = "recover"
               /\ Len(scan'[c]) = Min(Cardinality(pending), XPendingCount)
               /\ \A e \in pending :
                     Cardinality(PendingBefore(e)) < XPendingCount =>
                        scan'[c][Cardinality(PendingBefore(e)) + 1] =
                           [message_id |-> e.msg,
                            time_since_delivered |-> e.idle,
                            times_delivered |-> e.times_delivered]]_vars
    /\ [][\A c \in Consumers :
            cpc[c] = "recover" /\ scan[c] # <<>> /\ scan'[c] # scan[c] =>
               LET entry == Head(scan[c])
                   claimable == {e \in pending :
                                   /\ e.msg = entry.message_id
                                   /\ e.idle >= ClaimMinIdle}
               IN IF /\ entry.time_since_delivered >= ClaimMinIdle
                     /\ entry.times_delivered < MaxRetries
                     /\ claimable # {}
                  THEN /\ cpc'[c] = "idle"
                       /\ holding'[c] = [event |-> stream[entry.message_id],
                                         msg |-> entry.message_id]
                       /\ last_delivered' = last_delivered
                  ELSE /\ cpc'[c] = "recover"
                       /\ scan'[c] = Tail(scan[c])
                       /\ holding'[c] = NoDelivery]_vars
    /\ [][\A c \in Consumers :
            cpc'[c] = "read" /\ cpc[c] # "read" =>
               /\ cpc[c] = "recover"
               /\ scan[c] = <<>>
               /\ holding[c] = NoDelivery
               /\ metrics'[c].pending_recovered = metrics[c].pending_recovered]_vars
    /\ [][last_delivered' # last_delivered =>
            \E c \in Consumers :
               /\ cpc[c] = "read"
               /\ cpc'[c] = "idle"
               /\ holding'[c].msg = last_delivered']_vars

\* the backend returned a message it claimed from a pending list longer
\* than one XPENDING reply, while a message never delivered was waiting
PendingWindowFirstWitness ==
    /\ cpc[OnlyConsumer] = "idle"
    /\ holding[OnlyConsumer] # NoDelivery
    /\ \E d \in deliveries :
          /\ d.consumer = OnlyConsumer
          /\ d.via = "claimed"
          /\ d.msg = holding[OnlyConsumer].msg
    /\ last_delivered < Len(stream)
    /\ Cardinality(pending) > XPendingCount

\* the errors run terminates with
RunErrors ==
    {"MaxStepsExceeded", "BackendUnavailableError", "EnqueueError",
     "StartEnqueueError"}

\* a step that ends run
RunEnds == pc # "done" /\ pc' = "done"

EarlyStopForgotten ==
    /\ [][early_stops' # early_stops =>
            /\ pc = "init" /\ pc' = "init"
            /\ ~running /\ ~running'
            /\ UNCHANGED <<stats, queue, raised, pulled>>]_vars
    /\ [][pc = "init" /\ pc' # "init" =>
            /\ running'
            /\ raised' = NoError
            /\ pc' \in {"loop", "start_enqueue"}]_vars
    /\ [][running /\ ~running' =>
            /\ Suspended
            /\ pc' = pc
            /\ early_stops' = early_stops]_vars
    /\ [][pc = "loop" /\ running /\ pc' # pc =>
            pc' = "pull" \/ raised' # NoError]_vars
    /\ [][pulled' # pulled =>
            /\ stats'.events_processed = stats.events_processed + 1
            /\ IF Matching(event') = <<>>
               THEN event'.id \in resolved'
               ELSE pc' = "handle" /\ organ' = Head(Matching(event'))]_vars
    /\ [](pc = "done" /\ raised = NoError => ~running)

\* stop() was called before run(), and run is dispatching an event it pulled
EarlyStopForgottenWitness ==
    /\ early_stops = 1
    /\ running
    /\ pc = "handle"
    /\ pulled # <<>>
    /\ event.id = Last(pulled)

\* the failed-event store holds the event with this id together with the
\* error of a backend operation
StoredWithError(id) ==
    \E k \in 1..Len(failed_event_store.events) :
       /\ failed_event_store.events[k][1].id = id
       /\ failed_event_store.events[k][2] \in {Error(n) : n \in 1..MaxFaults}

\* the acknowledgment of the event being dispatched has been issued
Acknowledged == event # NoEvent /\ (pc = "ack" \/ event.id \in Range(acked_events))

EndedWithEnqueueError == pc = "done" /\ raised.type = "EnqueueError"

\* the emitted event whose enqueue ended run
RefusedId == Head(events_to_enqueue).id

(***************************************************************************)
(* C38: when run has ended with EnqueueError, which happens in FAIL mode   *)
(* at the first refusal and in RETRY mode after retry_attempts further     *)
(* refusals, the event that was being dispatched has not been passed to    *)
(* backend.ack nor to the failed-event store and its acknowledgment was    *)
(* not resolved, the refused event is in neither the backend nor the       *)
(* store, and every event handed to backend.enqueue before it in the same  *)
(* dispatch is still in the queue.                                         *)
(***************************************************************************)
EnqueueErrorLeavesEvent ==
    EndedWithEnqueueError =>
       /\ enqueue_failure_mode \in {"fail", "retry"}
       /\ Count(enqueue_calls, RefusedId) =
             IF enqueue_failure_mode = "retry" THEN retry_attempts + 1 ELSE 1
       /\ event.id = Last(pulled)
       /\ event.id \notin Range(acked_events)
       /\ event.id \notin Range(store_calls)
       /\ InStore(event.id) = 0
       /\ event.id \notin resolved
       /\ ~Accepted(RefusedId)
       /\ InStore(RefusedId) = 0
       /\ \A id \in dispatch_enqueued \ {RefusedId} :
             Count(Ids(queue), id) = 1

\* run ended with EnqueueError on an event of the second organ's return;
\* the events enqueued before it in this dispatch are in the queue
EnqueueErrorLeavesEventWitness ==
    /\ EndedWithEnqueueError
    /\ Len(invoked) = 2
    /\ Cardinality(dispatch_enqueued) >= 2
    /\ \A id \in dispatch_enqueued \ {RefusedId} : id \in Range(Ids(queue))
    /\ event.id \notin Range(acked_events)

MapEntriesPending ==
    \A c \in Consumers :
       /\ \A p \in event_message_map[c] : p.msg \in PendingIds
       /\ Cardinality(event_message_map[c]) <= Cardinality(pending)

\* what holds of the map of the only consumer of a group whose caller never
\* acks: an entry is added by a pull that returns its event, and none is
\* ever removed, by dead-lettering in particular
MapEntriesOutliveDlq ==
    /\ [](\A p \in event_message_map[OnlyConsumer] :
            \E d \in deliveries : d.event = p.event /\ d.msg = p.msg)
    /\ [][event_message_map[OnlyConsumer] \subseteq
             event_message_map'[OnlyConsumer]]_vars
    /\ [](\A x \in xacks :
            x.by = "dlq" /\ (\E d \in deliveries : d.msg = x.msg) =>
               \E p \in event_message_map[OnlyConsumer] : p.msg = x.msg)

=============================================================================
